---- MODULE Spec2Model ----
(***************************************************************************)
(* CanvasCrafter: the schedule-to-calendar engine.                          *)
(*                                                                          *)
(* populate_weeks (files/backend/populate_weeks.py) walks the rows of the   *)
(* schedule sheet and builds the week mapping; the resolver queries of      *)
(* populate_weeks_utils.py, checkout_utils.py and build_htmls/build_hw.py   *)
(* read the finished mapping.  Python strings are TLA+ strings, read one    *)
(* character at a time with SubSeq; a Python dict is a function whose       *)
(* DOMAIN is its key set, with its insertion order kept beside it where the *)
(* code iterates over it.                                                   *)
(***************************************************************************)
EXTENDS Integers, Sequences, FiniteSets, TLC

(***************************************************************************)
(* Bounds of the checked instances.                                         *)
(***************************************************************************)
MaxRows == 2
MaxItemRows == 3
MaxInheritRows == 5
MaxRangeRows == 2
MaxLessonRows == 4
MaxTokens == 3

(***************************************************************************)
(* Python str operations.                                                   *)
(***************************************************************************)
Char(s, i) == SubSeq(s, i, i)

DigitChars == "0123456789"
UpperChars == "ABCDEFGHIJKLMNOPQRSTUVWXYZ"
LowerChars == "abcdefghijklmnopqrstuvwxyz"

IndexIn(alphabet, c) ==
    IF \E i \in 1..Len(alphabet) : Char(alphabet, i) = c
    THEN CHOOSE i \in 1..Len(alphabet) : Char(alphabet, i) = c
    ELSE 0

IsDigit(c) == IndexIn(DigitChars, c) > 0
DigitVal(c) == IndexIn(DigitChars, c) - 1
IsSpace(c) == c \in {" ", "\t", "\n", "\r"}

UpperChar(c) ==
    IF IndexIn(LowerChars, c) > 0 THEN Char(UpperChars, IndexIn(LowerChars, c)) ELSE c
LowerChar(c) ==
    IF IndexIn(UpperChars, c) > 0 THEN Char(LowerChars, IndexIn(UpperChars, c)) ELSE c

RECURSIVE MapChars(_, _, _)
MapChars(s, i, upper) ==
    IF i > Len(s) THEN ""
    ELSE (IF upper THEN UpperChar(Char(s, i)) ELSE LowerChar(Char(s, i)))
         \o MapChars(s, i + 1, upper)

\* str.upper() and str.lower()
Upper(s) == MapChars(s, 1, TRUE)
Lower(s) == MapChars(s, 1, FALSE)

\* sub in s
Contains(s, sub) ==
    \E i \in 1..(Len(s) - Len(sub) + 1) : SubSeq(s, i, i + Len(sub) - 1) = sub

\* str.strip()
RECURSIVE LStrip(_)
LStrip(s) == IF Len(s) > 0 /\ IsSpace(Char(s, 1)) THEN LStrip(SubSeq(s, 2, Len(s))) ELSE s
RECURSIVE RStrip(_)
RStrip(s) ==
    IF Len(s) > 0 /\ IsSpace(Char(s, Len(s))) THEN RStrip(SubSeq(s, 1, Len(s) - 1)) ELSE s
Strip(s) == RStrip(LStrip(s))

\* "".join(c for c in s if c.isdigit())
RECURSIVE DigitsOf(_)
DigitsOf(s) ==
    IF Len(s) = 0 THEN ""
    ELSE (IF IsDigit(Char(s, 1)) THEN Char(s, 1) ELSE "") \o DigitsOf(SubSeq(s, 2, Len(s)))

\* int(s) for a non-empty string of digits
RECURSIVE PyInt(_)
PyInt(s) ==
    IF Len(s) = 0 THEN 0
    ELSE 10 * PyInt(SubSeq(s, 1, Len(s) - 1)) + DigitVal(Char(s, Len(s)))

\* str(n) for n >= 0
RECURSIVE PyStr(_)
PyStr(n) ==
    IF n < 10 THEN Char(DigitChars, n + 1)
    ELSE PyStr(n \div 10) \o Char(DigitChars, (n % 10) + 1)

\* the format specs %02d / %04d / {n:02d}
RECURSIVE ZeroPad(_, _)
ZeroPad(s, width) == IF Len(s) >= width THEN s ELSE ZeroPad("0" \o s, width)

\* str.isdigit() of a whole string
AllDigits(s) == Len(s) > 0 /\ \A i \in 1..Len(s) : IsDigit(Char(s, i))

(***************************************************************************)
(* re.search(KEYWORD\s*(\d+), text, re.IGNORECASE).group(1), the pattern    *)
(* shared by the homework, quiz and checkout extractors.  NoMatch stands    *)
(* for None: a captured group is never empty.                               *)
(***************************************************************************)
NoMatch == ""

RECURSIVE SkipSpaces(_, _)
SkipSpaces(s, i) == IF i <= Len(s) /\ IsSpace(Char(s, i)) THEN SkipSpaces(s, i + 1) ELSE i

RECURSIVE DigitRun(_, _)
DigitRun(s, i) ==
    IF i <= Len(s) /\ IsDigit(Char(s, i)) THEN Char(s, i) \o DigitRun(s, i + 1) ELSE ""

\* the text matched at position i: keyword, \s*, then the greedy \d+ (or NoMatch)
MatchAt(keyword, s, i) ==
    IF i + Len(keyword) - 1 <= Len(s)
       /\ Lower(SubSeq(s, i, i + Len(keyword) - 1)) = Lower(keyword)
    THEN DigitRun(s, SkipSpaces(s, i + Len(keyword)))
    ELSE NoMatch

RECURSIVE SearchFrom(_, _, _)
SearchFrom(keyword, s, i) ==
    IF i > Len(s) THEN NoMatch
    ELSE IF MatchAt(keyword, s, i) # NoMatch THEN MatchAt(keyword, s, i)
    ELSE SearchFrom(keyword, s, i + 1)

ReSearchNumber(keyword, s) == SearchFrom(keyword, s, 1)

(***************************************************************************)
(* datetime: weekday(), strftime("%m/%d/%Y"), strptime(s, "%m/%d/%Y").      *)
(* A timestamp is [y, m, d]; the resolver compares dates at midnight.       *)
(***************************************************************************)
IsLeap(y) == y % 4 = 0 /\ (y % 100 # 0 \/ y % 400 = 0)

DaysInMonth(y, m) ==
    IF m = 2 THEN (IF IsLeap(y) THEN 29 ELSE 28)
    ELSE IF m \in {4, 6, 9, 11} THEN 30 ELSE 31

DaysBeforeYear(y) ==
    (y - 1) * 365 + ((y - 1) \div 4) - ((y - 1) \div 100) + ((y - 1) \div 400)

RECURSIVE DaysBeforeMonth(_, _)
DaysBeforeMonth(y, m) ==
    IF m = 1 THEN 0 ELSE DaysBeforeMonth(y, m - 1) + DaysInMonth(y, m - 1)

ToOrdinal(date) == DaysBeforeYear(date.y) + DaysBeforeMonth(date.y, date.m) + date.d

\* date.weekday(): Monday = 0 ... Sunday = 6
\* variant: the day index counted from Sunday instead of Monday
WeekdayFromSunday(date) == ToOrdinal(date) % 7

Weekday(date) == (ToOrdinal(date) + 6) % 7

Strftime(date) ==
    ZeroPad(PyStr(date.m), 2) \o "/" \o ZeroPad(PyStr(date.d), 2) \o "/"
        \o ZeroPad(PyStr(date.y), 4)

ValueError == [error |-> "ValueError"]

\* positions of the "/" separators of s
Slashes(s) == {i \in 1..Len(s) : Char(s, i) = "/"}

Strptime(s) ==
    IF Cardinality(Slashes(s)) # 2 THEN ValueError
    ELSE LET i == CHOOSE a \in Slashes(s) : \A b \in Slashes(s) : a <= b
             j == CHOOSE a \in Slashes(s) : \A b \in Slashes(s) : a >= b
             mm == SubSeq(s, 1, i - 1)
             dd == SubSeq(s, i + 1, j - 1)
             yy == SubSeq(s, j + 1, Len(s))
         IN IF ~(AllDigits(mm) /\ AllDigits(dd) /\ AllDigits(yy)) THEN ValueError
            ELSE IF Len(mm) > 2 \/ Len(dd) > 2 \/ Len(yy) # 4 THEN ValueError
            ELSE IF PyInt(mm) \notin 1..12 \/ PyInt(yy) < 1 THEN ValueError
            ELSE IF PyInt(dd) \notin 1..DaysInMonth(PyInt(yy), PyInt(mm)) THEN ValueError
            ELSE [y |-> PyInt(yy), m |-> PyInt(mm), d |-> PyInt(dd)]

\* a >= b on two parsed dates
DateGE(a, b) == ToOrdinal(a) >= ToOrdinal(b)

(***************************************************************************)
(* The iteration order of set(weeks_column).  Python leaves the order of a *)
(* set open.  CPython keeps an open-addressing table: an int hashes to     *)
(* itself, the slot is hash & mask, a collision probes up to LINEAR_PROBES *)
(* following slots and then jumps by i*5 + 1 + perturb, the table is       *)
(* rebuilt four times the size once it is three fifths full, and iteration *)
(* walks the slots.  An insertion-ordered set (PyPy) iterates in the order *)
(* of first occurrence.  Both orders are outcomes of the same line.        *)
(***************************************************************************)
PySet_MINSIZE == 8
LINEAR_PROBES == 9
PERTURB_SHIFT == 5
EmptySlot == -1

MinOf(S) == CHOOSE a \in S : \A b \in S : a <= b

RECURSIVE Pow2(_)
Pow2(n) == IF n = 0 THEN 1 ELSE 2 * Pow2(n - 1)

\* the slot where key lands: the first unused slot on its probe path, or its own
RECURSIVE SetLookKey(_, _, _, _, _)
SetLookKey(table, mask, key, i, perturb) ==
    LET probes == IF i + LINEAR_PROBES <= mask THEN LINEAR_PROBES ELSE 0
        hits == {j \in i..(i + probes) : table[j] = EmptySlot \/ table[j] = key}
        shifted == perturb \div Pow2(PERTURB_SHIFT)
    IN IF hits # {} THEN MinOf(hits)
       ELSE SetLookKey(table, mask, key, (i * 5 + 1 + shifted) % (mask + 1), shifted)

SetInsert(table, mask, key) ==
    [table EXCEPT ![SetLookKey(table, mask, key, key % (mask + 1), key)] = key]

RECURSIVE GrowSize(_, _)
GrowSize(newsize, minused) ==
    IF newsize <= minused THEN GrowSize(2 * newsize, minused) ELSE newsize

RECURSIVE ReinsertFrom(_, _, _, _)
ReinsertFrom(old, i, table, mask) ==
    IF i \notin DOMAIN old THEN table
    ELSE ReinsertFrom(old, i + 1,
                      IF old[i] = EmptySlot THEN table ELSE SetInsert(table, mask, old[i]),
                      mask)

Used(table) == Cardinality({i \in DOMAIN table : table[i] # EmptySlot})

SetTableResize(table, minused) ==
    LET newsize == GrowSize(PySet_MINSIZE, minused)
    IN ReinsertFrom(table, 0, [i \in 0..(newsize - 1) |-> EmptySlot], newsize - 1)

SetAddKey(table, key) ==
    LET mask == Cardinality(DOMAIN table) - 1
        added == SetInsert(table, mask, key)
    IN IF Used(added) * 5 < mask * 3 THEN added
       ELSE SetTableResize(added, Used(added) * 4)

RECURSIVE SetFromSeq(_, _, _)
SetFromSeq(values, i, table) ==
    IF i > Len(values) THEN table
    ELSE SetFromSeq(values, i + 1, SetAddKey(table, values[i]))

RECURSIVE SlotsInOrder(_, _)
SlotsInOrder(table, i) ==
    IF i \notin DOMAIN table THEN <<>>
    ELSE (IF table[i] = EmptySlot THEN <<>> ELSE <<table[i]>>) \o SlotsInOrder(table, i + 1)

HashSetOrder(values) ==
    SlotsInOrder(SetFromSeq(values, 1, [i \in 0..(PySet_MINSIZE - 1) |-> EmptySlot]), 0)

RECURSIVE FirstOccurrences(_, _)
FirstOccurrences(values, i) ==
    IF i > Len(values) THEN <<>>
    ELSE (IF \E j \in 1..(i - 1) : values[j] = values[i] THEN <<>> ELSE <<values[i]>>)
         \o FirstOccurrences(values, i + 1)

InsertionSetOrder(values) == FirstOccurrences(values, 1)

SetIterationOrders(values) == {HashSetOrder(values), InsertionSetOrder(values)}

(***************************************************************************)
(* title_to_url_safe                                                        *)
(***************************************************************************)
IsSlugChar(c) == IndexIn(LowerChars, c) > 0 \/ IsDigit(c)

\* str.replace(old, new), old not empty
RECURSIVE Replace(_, _, _)
Replace(s, old, new) ==
    IF Len(s) < Len(old) THEN s
    ELSE IF SubSeq(s, 1, Len(old)) = old
         THEN new \o Replace(SubSeq(s, Len(old) + 1, Len(s)), old, new)
         ELSE Char(s, 1) \o Replace(SubSeq(s, 2, Len(s)), old, new)

\* re.sub(r"[^a-z0-9]+", "-", s) followed by re.sub(r"-+", "-", s)
RECURSIVE HyphenateRuns(_, _)
HyphenateRuns(s, inRun) ==
    IF Len(s) = 0 THEN ""
    ELSE IF IsSlugChar(Char(s, 1))
         THEN Char(s, 1) \o HyphenateRuns(SubSeq(s, 2, Len(s)), FALSE)
         ELSE (IF inRun THEN "" ELSE "-") \o HyphenateRuns(SubSeq(s, 2, Len(s)), TRUE)

\* str.strip("-")
RECURSIVE StripHyphens(_)
StripHyphens(s) ==
    IF Len(s) > 0 /\ Char(s, 1) = "-" THEN StripHyphens(SubSeq(s, 2, Len(s)))
    ELSE IF Len(s) > 0 /\ Char(s, Len(s)) = "-" THEN StripHyphens(SubSeq(s, 1, Len(s) - 1))
    ELSE s

title_to_url_safe(title) ==
    IF title = "" \/ Strip(title) = "" THEN ""
    ELSE StripHyphens(HyphenateRuns(
             Replace(Replace(Replace(Lower(title), "/", "-slash-"), "'", ""), "&", "and"),
             FALSE))

(***************************************************************************)
(* The inputs of one run: the sheet and the YAML data.                      *)
(*                                                                          *)
(* df[i] is the row with index label i of the frame read from the sheet:    *)
(* row 0 is skipped by the walker, rows 1.. are the data rows.  A cell is   *)
(* what it is after df.replace(np.nan, ""): "" for an empty cell.  The week *)
(* cell is read before that replacement, NaN when empty.  A date cell       *)
(* carries its Python type.                                                 *)
(*                                                                          *)
(* image_urls and icon_urls are the two names line 34 binds from the call   *)
(* of get_image_urls_for_yaml_data, a per-week dict and the icon dict.  The *)
(* function of get_image_urls.py (lines 104-134) returns one dict, not a    *)
(* pair, so the unpacking of line 34 fails on it; the run is modelled with  *)
(* the two names bound as lines 47 and 106 use them.                        *)
(***************************************************************************)
VARIABLES df, overview_data, objective_data, image_urls, sample_quiz_urls,
          course_id, lecture_info

(***************************************************************************)
(* The state of populate_weeks and of the caller that queries its result.   *)
(*   pc         where the run stands: "start", "rows", "joined", "done",    *)
(*              or "error" once an exception has left populate_weeks        *)
(*   index      the row index of the iterrows loop                          *)
(*   weeks      the dict under construction, its integer keys               *)
(*   week_keys  the insertion order of those keys                           *)
(*   extras     the string keys added before the return                     *)
(*   error      the exception that ended the run                            *)
(*   query      the last resolver call, its arguments and what it returned  *)
(***************************************************************************)
VARIABLES pc, index, weeks, week_keys, extras, error, query

inputs == <<df, overview_data, objective_data, image_urls, sample_quiz_urls,
            course_id, lecture_info>>
vars == <<df, overview_data, objective_data, image_urls, sample_quiz_urls,
          course_id, lecture_info, pc, index, weeks, week_keys, extras, error, query>>

NaN == -1
\* the value "" of weeks[w]["module"] before a row has set it
EmptyModule == -1
\* Python's None where a string is expected
PyNone == "None"

Timestamp(y, m, d) == [type |-> "Timestamp", y |-> y, m |-> m, d |-> d]
Text(s) == [type |-> "str", value |-> s]

ScheduleRow(week, module, lesson, date, topic, referenced, assigned, due, prework) ==
    [week |-> week, module |-> module, lesson |-> lesson, date |-> date, topic |-> topic,
     referenced |-> referenced, assigned |-> assigned, due |-> due, prework |-> prework]

DATA_START_ROW == 1
LastIndex == Cardinality(DOMAIN df) - 1

\* df.iloc[DATA_START_ROW:, 1].ffill(): the nearest week cell at or above row i
RECURSIVE FfillAt(_, _)
FfillAt(d, i) ==
    IF d[i].week # NaN THEN d[i].week
    ELSE IF i = DATA_START_ROW THEN NaN ELSE FfillAt(d, i - 1)

weeks_column == [i \in DATA_START_ROW..LastIndex |-> FfillAt(df, i)]

\* the values of the column in row order, as set() reads them
ColumnValues == [i \in 1..(LastIndex - DATA_START_ROW + 1) |-> weeks_column[i + DATA_START_ROW - 1]]

weekday_names == <<"monday", "tuesday", "wednesday", "thursday", "friday", "saturday", "sunday">>
WeekdaySet == {weekday_names[d] : d \in 1..Len(weekday_names)}

\* the second value of get_image_urls_for_yaml_data, passed through unread
icon_urls == [syllabus |-> "icon-syllabus.png"]

DictSet(dict, key, value) ==
    [k \in DOMAIN dict \cup {key} |-> IF k = key THEN value ELSE dict[k]]

\* str(weeks[w]["module"])
ModuleStr(module) == IF module = EmptyModule THEN "" ELSE PyStr(module)

(***************************************************************************)
(* populate_weeks, lines 28-47: the week column and the empty week records. *)
(***************************************************************************)
Raise(exception) ==
    /\ pc' = "error"
    /\ error' = exception
    /\ UNCHANGED <<inputs, index, weeks, week_keys, extras, query>>

InitWeeks ==
    /\ pc = "start"
    /\ IF \E i \in DOMAIN weeks_column : weeks_column[i] = NaN
       THEN Raise("ValueError")
       ELSE IF \E i \in DOMAIN weeks_column :
                   weeks_column[i] \notin DOMAIN overview_data
                   \/ weeks_column[i] \notin DOMAIN image_urls
       THEN Raise("KeyError")
       ELSE \E order \in SetIterationOrders(ColumnValues) :
               /\ weeks' = [w \in {weeks_column[i] : i \in DOMAIN weeks_column} |->
                               [module |-> EmptyModule,
                                overview_statement |-> overview_data[w].description,
                                image |-> image_urls[w]]]
               /\ week_keys' = order
               /\ pc' = "rows"
               /\ index' = 0
               /\ UNCHANGED <<inputs, extras, error, query>>

(***************************************************************************)
(* populate_weeks, lines 49-99: one row of the iterrows loop.               *)
(***************************************************************************)
\* the exception lines 56-59 raise for row i, "" when they raise none
ModuleError(wks, i) ==
    LET w == weeks_column[i]
        cell == df[i].module
    IN IF ~Contains(ModuleStr(wks[w].module), "Mod") /\ cell # ""
       THEN (IF DigitsOf(cell) = "" THEN "ValueError" ELSE "")
       ELSE IF cell = ""
       THEN (IF (i - 1) \notin DOMAIN weeks_column THEN "KeyError" ELSE "")
       ELSE ""

\* variant: an empty cell takes the module of the week of the first data row
AssignModuleFromFirstRow(wks, i) ==
    LET w == weeks_column[i]
        cell == df[i].module
    IN IF ~Contains(ModuleStr(wks[w].module), "Mod") /\ cell # ""
       THEN [wks EXCEPT ![w].module = PyInt(DigitsOf(cell))]
       ELSE IF cell = ""
       THEN [wks EXCEPT ![w].module = wks[weeks_column[DATA_START_ROW]].module]
       ELSE wks

\* variant: a row takes part in the module assignment only when its date cell is a timestamp
AssignModuleOnDatedRows(wks, i) ==
    LET w == weeks_column[i]
        cell == df[i].module
    IN IF df[i].date.type \notin {"Timestamp", "datetime"} THEN wks
       ELSE IF ~Contains(ModuleStr(wks[w].module), "Mod") /\ cell # ""
       THEN [wks EXCEPT ![w].module = PyInt(DigitsOf(cell))]
       ELSE IF cell = ""
       THEN [wks EXCEPT ![w].module = wks[weeks_column[i - 1]].module]
       ELSE wks

\* variant: a module cell is read only while the week has no module yet
AssignModuleKeepFirst(wks, i) ==
    LET w == weeks_column[i]
        cell == df[i].module
    IN IF wks[w].module = EmptyModule /\ cell # ""
       THEN [wks EXCEPT ![w].module = PyInt(DigitsOf(cell))]
       ELSE IF cell = ""
       THEN [wks EXCEPT ![w].module = wks[weeks_column[i - 1]].module]
       ELSE wks

\* variant: the module is the first run of digits of the cell
AssignModuleFirstDigits(wks, i) ==
    LET w == weeks_column[i]
        cell == df[i].module
    IN IF ~Contains(ModuleStr(wks[w].module), "Mod") /\ cell # ""
       THEN [wks EXCEPT ![w].module =
                PyInt(DigitRun(cell, MinOf({k \in 1..Len(cell) : IsDigit(Char(cell, k))})))]
       ELSE IF cell = ""
       THEN [wks EXCEPT ![w].module = wks[weeks_column[i - 1]].module]
       ELSE wks

\* lines 56-59
AssignModule(wks, i) ==
    LET w == weeks_column[i]
        cell == df[i].module
    IN IF ~Contains(ModuleStr(wks[w].module), "Mod") /\ cell # ""
       THEN [wks EXCEPT ![w].module = PyInt(DigitsOf(cell))]
       ELSE IF cell = ""
       THEN [wks EXCEPT ![w].module = wks[weeks_column[i - 1]].module]
       ELSE wks

process_quiz_from_topic(topic, urls) ==
    LET quiz_number == ReSearchNumber("Quiz", Strip(topic))
    IN IF topic = "" \/ quiz_number = NoMatch
       THEN [has_quiz |-> FALSE, quiz_number |-> "", study_text |-> "",
             sample_text |-> "", sample_quiz_url |-> ""]
       ELSE [has_quiz |-> TRUE, quiz_number |-> quiz_number,
             study_text |-> "Study for Quiz " \o quiz_number,
             sample_text |-> "Sample Quiz " \o quiz_number,
             sample_quiz_url |-> IF quiz_number \in DOMAIN urls THEN urls[quiz_number] ELSE ""]

process_checkout_from_topic(topic) ==
    LET checkout_number == ReSearchNumber("Checkout", Strip(topic))
    IN IF topic = "" \/ checkout_number = NoMatch
       THEN [has_checkout |-> FALSE, checkout_number |-> ""]
       ELSE [has_checkout |-> TRUE, checkout_number |-> checkout_number]

IsTimestamp(cell) == cell.type \in {"Timestamp", "datetime"}

\* variant: the link is built from the slug of the cell's title, without the prefix
PreworkFieldsRawSlug(row, module) ==
    LET prework_title_raw == Strip(row.prework)
        url_safe_title == title_to_url_safe(prework_title_raw)
    IN IF prework_title_raw # ""
       THEN [title |-> "Prework Module " \o ModuleStr(module) \o " - " \o prework_title_raw,
             link |-> IF url_safe_title # "" /\ course_id # ""
                      THEN "https://umich.instructure.com/courses/" \o course_id
                           \o "/pages/" \o url_safe_title
                      ELSE ""]
       ELSE [title |-> row.prework, link |-> ""]

\* lines 83-96: the two prework fields of a day
PreworkFields(row, module) ==
    LET prework_title_raw == Strip(row.prework)
        prework_title_with_prefix ==
            "Prework Module " \o ModuleStr(module) \o " - " \o prework_title_raw
        url_safe_title == title_to_url_safe(prework_title_with_prefix)
    IN IF prework_title_raw # ""
       THEN [title |-> prework_title_with_prefix,
             link |-> IF url_safe_title # "" /\ course_id # ""
                      THEN "https://umich.instructure.com/courses/" \o course_id
                           \o "/pages/" \o url_safe_title
                      ELSE ""]
       ELSE [title |-> row.prework, link |-> ""]

\* lines 63-96: the day record of a row with a timestamp
DayRecord(row, module) ==
    [lesson |-> row.lesson,
     date |-> Strftime(row.date),
     topic |-> row.topic,
     referenced |-> row.referenced,
     assigned |-> row.assigned,
     due |-> row.due,
     quiz_info |-> process_quiz_from_topic(row.topic, sample_quiz_urls),
     checkout_info |-> process_checkout_from_topic(row.topic),
     prework_video_title |-> PreworkFields(row, module).title,
     prework_video_link |-> PreworkFields(row, module).link]

\* variant: a row without a timestamp is stored too, under the first weekday name
StoreDayUndated(wks, i) ==
    LET w == weeks_column[i]
        row == df[i]
    IN IF IsTimestamp(row.date)
       THEN [wks EXCEPT ![w] = DictSet(@, weekday_names[Weekday(row.date) + 1],
                                       DayRecord(row, wks[w].module))]
       ELSE [wks EXCEPT ![w] = DictSet(@, weekday_names[1],
                                       [lesson |-> row.lesson, date |-> row.date.value])]

\* variant: the fields are assigned only to a day that has none yet
AssignDayFieldsOnce(day, fields) == IF DOMAIN day # {} THEN day ELSE fields

\* lines 70-96: the keys assigned to the dict of the day, the other keys of the dict kept
AssignDayFields(day, fields) ==
    [key \in DOMAIN day \cup DOMAIN fields |->
        IF key \in DOMAIN fields THEN fields[key] ELSE day[key]]

\* lines 62-99; lines 67-68 start a day from the dict already stored under the weekday, or
\* from an empty dict
StoreDay(wks, i) ==
    LET w == weeks_column[i]
        row == df[i]
        weekday == weekday_names[Weekday(row.date) + 1]
    IN IF IsTimestamp(row.date)
       THEN [wks EXCEPT ![w] = DictSet(@, weekday,
                                       AssignDayFields(IF weekday \in DOMAIN wks[w]
                                                       THEN wks[w][weekday] ELSE <<>>,
                                                       DayRecord(row, wks[w].module)))]
       ELSE wks

\* variant: an empty module cell on the first data row leaves the module of the week empty
ProcessRowLeavingModuleEmpty ==
    /\ pc = "rows"
    /\ index <= LastIndex
    /\ IF index = 0
       THEN /\ index' = index + 1
            /\ UNCHANGED <<inputs, pc, weeks, week_keys, extras, error, query>>
       ELSE IF index = DATA_START_ROW /\ df[index].module = ""
       THEN /\ weeks' = StoreDay(weeks, index)
            /\ index' = index + 1
            /\ UNCHANGED <<inputs, pc, week_keys, extras, error, query>>
       ELSE IF ModuleError(weeks, index) # ""
       THEN Raise(ModuleError(weeks, index))
       ELSE /\ weeks' = StoreDay(AssignModule(weeks, index), index)
            /\ index' = index + 1
            /\ UNCHANGED <<inputs, pc, week_keys, extras, error, query>>

ProcessRow ==
    /\ pc = "rows"
    /\ index <= LastIndex
    /\ IF index = 0
       THEN /\ index' = index + 1
            /\ UNCHANGED <<inputs, pc, weeks, week_keys, extras, error, query>>
       ELSE IF ModuleError(weeks, index) # ""
       THEN Raise(ModuleError(weeks, index))
       ELSE /\ weeks' = StoreDay(AssignModule(weeks, index), index)
            /\ index' = index + 1
            /\ UNCHANGED <<inputs, pc, week_keys, extras, error, query>>

(***************************************************************************)
(* populate_weeks, lines 101-103: the objectives of each week's module.     *)
(***************************************************************************)
JoinedWeek(week) ==
    DictSet(DictSet(week, "learning_objectives",
                    objective_data[week.module].learning_objectives),
            "learning_objectives_topic",
            objective_data[week.module].learning_objectives_topic)

\* variant: a module without an entry gets empty objectives instead of the KeyError
JoinObjectivesWithDefault ==
    /\ pc = "rows"
    /\ index > LastIndex
    /\ weeks' = [w \in DOMAIN weeks |->
                    IF weeks[w].module \in DOMAIN objective_data
                    THEN JoinedWeek(weeks[w])
                    ELSE DictSet(DictSet(weeks[w], "learning_objectives", <<>>),
                                 "learning_objectives_topic", "")]
    /\ pc' = "joined"
    /\ UNCHANGED <<inputs, index, week_keys, extras, error, query>>

JoinObjectives ==
    /\ pc = "rows"
    /\ index > LastIndex
    /\ IF \E w \in DOMAIN weeks : weeks[w].module \notin DOMAIN objective_data
       THEN Raise("KeyError")
       ELSE /\ weeks' = [w \in DOMAIN weeks |-> JoinedWeek(weeks[w])]
            /\ pc' = "joined"
            /\ UNCHANGED <<inputs, index, week_keys, extras, error, query>>

(***************************************************************************)
(* populate_weeks, lines 105-111: the two string keys, and the return.      *)
(***************************************************************************)
\* variant: weeks without a day record are left out of the returned mapping
ReturnOnlyDatedWeeks ==
    /\ pc = "joined"
    /\ weeks' = [w \in {v \in DOMAIN weeks : DOMAIN weeks[v] \cap WeekdaySet # {}}
                    |-> weeks[w]]
    /\ extras' = [icon_urls |-> icon_urls, lecture_info |-> lecture_info]
    /\ pc' = "done"
    /\ UNCHANGED <<inputs, index, week_keys, error, query>>

\* variant: only the week met first when iterating the set of weeks is returned
ReturnFirstIteratedWeek ==
    /\ pc = "joined"
    /\ extras' = [icon_urls |-> icon_urls, lecture_info |-> lecture_info]
    /\ weeks' = IF week_keys = <<>> THEN weeks ELSE [w \in {week_keys[1]} |-> weeks[w]]
    /\ pc' = "done"
    /\ UNCHANGED <<inputs, index, week_keys, error, query>>

Return ==
    /\ pc = "joined"
    /\ extras' = [icon_urls |-> icon_urls, lecture_info |-> lecture_info]
    /\ pc' = "done"
    /\ UNCHANGED <<inputs, index, weeks, week_keys, error, query>>

Build == InitWeeks \/ ProcessRow \/ JoinObjectives \/ Return

NoQuery == [op |-> "none"]

InitProgram ==
    /\ pc = "start"
    /\ index = 0
    /\ weeks = <<>>
    /\ week_keys = <<>>
    /\ extras = <<>>
    /\ error = ""
    /\ query = NoQuery

(***************************************************************************)
(* get_lecture_days_list (populate_weeks.py, lines 139-157).                *)
(***************************************************************************)
\* str.split(sep) for a one-character separator
RECURSIVE Split(_, _)
Split(s, sep) ==
    IF \E i \in 1..Len(s) : Char(s, i) = sep
    THEN LET i == MinOf({j \in 1..Len(s) : Char(s, j) = sep})
         IN <<SubSeq(s, 1, i - 1)>> \o Split(SubSeq(s, i + 1, Len(s)), sep)
    ELSE <<s>>

NotBlank(piece) == Strip(piece) # ""

get_lecture_days_list ==
    LET days_string == IF "lecture_days" \in DOMAIN lecture_info
                       THEN lecture_info.lecture_days
                       ELSE "Monday, Wednesday, & Friday"
        pieces == SelectSeq(Split(Replace(Replace(days_string, "&", ","), " and ", ","), ","),
                            NotBlank)
    IN [i \in 1..Len(pieces) |-> Lower(Strip(pieces[i]))]

(***************************************************************************)
(* The resolver queries.  The returned dict holds the week records under    *)
(* their integer keys, in the order of week_keys, then the two string keys. *)
(***************************************************************************)
\* the values under the keys that pass str(key).isdigit()
WeekValues == [i \in 1..Len(week_keys) |-> weeks[week_keys[i]]]
\* the values of weeks_data.items()
AllValues == WeekValues \o <<extras.icon_urls, extras.lecture_info>>

\* variant: the due text must name exactly the homework number after "HW"
RECURSIVE FirstDueDayExactNumber(_, _, _)
FirstDueDayExactNumber(week_data, hw_number, d) ==
    IF d > Len(weekday_names) THEN 0
    ELSE LET day == weekday_names[d]
         IN IF /\ day \in DOMAIN week_data
               /\ "due" \in DOMAIN week_data[day]
               /\ week_data[day].due # ""
               /\ ReSearchNumber("HW", week_data[day].due) = hw_number
            THEN d
            ELSE FirstDueDayExactNumber(week_data, hw_number, d + 1)

\* the first day at or after position d of the weekday list whose due text holds hw_number
RECURSIVE FirstDueDay(_, _, _)
FirstDueDay(week_data, hw_number, d) ==
    IF d > Len(weekday_names) THEN 0
    ELSE LET day == weekday_names[d]
         IN IF /\ day \in DOMAIN week_data
               /\ "due" \in DOMAIN week_data[day]
               /\ week_data[day].due # ""
               /\ Contains(week_data[day].due, hw_number)
            THEN d
            ELSE FirstDueDay(week_data, hw_number, d + 1)

RECURSIVE DueDateFrom(_, _, _)
DueDateFrom(values, hw_number, i) ==
    IF i > Len(values) THEN "TBD"
    ELSE IF FirstDueDay(values[i], hw_number, 1) # 0
         THEN values[i][weekday_names[FirstDueDay(values[i], hw_number, 1)]].date
         ELSE DueDateFrom(values, hw_number, i + 1)

\* populate_weeks_utils.py
find_homework_due_date_across_weeks(hw_number) == DueDateFrom(WeekValues, hw_number, 1)

\* build_htmls/build_hw.py: no key is skipped
find_homework_due_date(hw_number) == DueDateFrom(AllValues, hw_number, 1)

\* checkout_utils.py
RECURSIVE HomeworkDueFrom(_, _)
HomeworkDueFrom(week_data, d) ==
    IF d > Len(weekday_names) THEN <<PyNone, PyNone>>
    ELSE LET day == weekday_names[d]
         IN IF /\ day \in DOMAIN week_data
               /\ week_data[day].due # ""
               /\ Contains(Upper(week_data[day].due), "HW")
               /\ ReSearchNumber("HW", week_data[day].due) # NoMatch
            THEN <<ReSearchNumber("HW", week_data[day].due), week_data[day].date>>
            ELSE HomeworkDueFrom(week_data, d + 1)

\* variant: when the checkout's week has no homework due, the other weeks are searched
FindHomeworkDueInAnyWeek(checkout_week_num) ==
    LET none == <<PyNone, PyNone>>
        hits == {w \in DOMAIN weeks : HomeworkDueFrom(weeks[w], 1) # none}
    IN IF checkout_week_num \in hits THEN HomeworkDueFrom(weeks[checkout_week_num], 1)
       ELSE IF hits = {} THEN none
       ELSE HomeworkDueFrom(weeks[MinOf(hits)], 1)

find_homework_due_for_checkout(checkout_week_num) ==
    IF checkout_week_num \notin DOMAIN weeks THEN <<PyNone, PyNone>>
    ELSE HomeworkDueFrom(weeks[checkout_week_num], 1)

\* list.sort(key=...): stable, ascending.  The item at position i of the list goes to
\* the place after the items of a smaller key and the earlier items of the same key.
SortedPlace(items, key, i) ==
    1 + Cardinality({k \in 1..Len(items) :
                        \/ items[k][key] < items[i][key]
                        \/ items[k][key] = items[i][key] /\ k < i})

SortedList(list, key) ==
    [place \in 1..Len(list) |->
        list[CHOOSE i \in 1..Len(list) : SortedPlace(list, key, i) = place]]

\* the list is built once, then sorted
SortByKey(items, key) == CHOOSE sorted \in {SortedList(list, key) : list \in {items}} : TRUE

\* the quizzes of one week record, on the lecture days from position j on
RECURSIVE QuizzesOfWeek(_, _, _, _)
QuizzesOfWeek(week_num, week_data, lecture_days, j) ==
    IF j > Len(lecture_days) THEN <<>>
    ELSE LET day == lecture_days[j]
         IN (IF /\ day \in DOMAIN week_data
                /\ week_data[day].quiz_info.has_quiz
                /\ week_data[day].quiz_info.quiz_number # ""
                /\ week_data[day].date # ""
             THEN <<[quiz_number |-> PyInt(week_data[day].quiz_info.quiz_number),
                     date |-> week_data[day].date,
                     week_number |-> week_num,
                     day |-> day]>>
             ELSE <<>>)
            \o QuizzesOfWeek(week_num, week_data, lecture_days, j + 1)

RECURSIVE QuizzesFrom(_, _)
QuizzesFrom(i, lecture_days) ==
    IF i > Len(week_keys) THEN <<>>
    ELSE QuizzesOfWeek(week_keys[i], weeks[week_keys[i]], lecture_days, 1)
         \o QuizzesFrom(i + 1, lecture_days)

\* get_lecture_days_list() reads the same file for every week: one value
collect_quiz_dates ==
    CHOOSE quizzes \in {SortByKey(QuizzesFrom(1, lecture_days), "quiz_number") :
                            lecture_days \in {get_lecture_days_list}} : TRUE

\* extract_checkout_number (checkout_utils.py): three spellings of one pattern
extract_checkout_number(topic) ==
    IF topic = "" THEN NoMatch ELSE ReSearchNumber("CHECKOUT", topic)

RECURSIVE CheckoutsOfWeek(_, _, _)
CheckoutsOfWeek(week_num, week_data, d) ==
    IF d > Len(weekday_names) THEN <<>>
    ELSE LET day == weekday_names[d]
         IN (IF day \in DOMAIN week_data
                /\ extract_checkout_number(week_data[day].topic) # NoMatch
             THEN <<[checkout_number |-> PyInt(extract_checkout_number(week_data[day].topic)),
                     date |-> week_data[day].date,
                     week_number |-> week_num,
                     day |-> day,
                     module |-> PyInt(extract_checkout_number(week_data[day].topic))]>>
             ELSE <<>>)
            \o CheckoutsOfWeek(week_num, week_data, d + 1)

RECURSIVE CheckoutsFrom(_)
CheckoutsFrom(i) ==
    IF i > Len(week_keys) THEN <<>>
    ELSE CheckoutsOfWeek(week_keys[i], weeks[week_keys[i]], 1) \o CheckoutsFrom(i + 1)

collect_checkout_assignments == SortByKey(CheckoutsFrom(1), "checkout_number")

\* the reference date of the current week: "" when it has no dated lecture day
RECURSIVE CurrentDateFrom(_, _, _)
CurrentDateFrom(current_week_data, lecture_days, j) ==
    IF j > Len(lecture_days) THEN ""
    ELSE IF /\ lecture_days[j] \in DOMAIN current_week_data
            /\ current_week_data[lecture_days[j]].date # ""
         THEN current_week_data[lecture_days[j]].date
         ELSE CurrentDateFrom(current_week_data, lecture_days, j + 1)

current_date(current_week_num) ==
    CHOOSE date \in
        {CurrentDateFrom(IF current_week_num \in DOMAIN weeks THEN weeks[current_week_num]
                         ELSE <<>>,
                         lecture_days, 1) : lecture_days \in {get_lecture_days_list}} : TRUE

\* variant: an item dated on the reference date counts as passed
RECURSIVE FirstStrictlyLater(_, _, _)
FirstStrictlyLater(items, current_date_obj, i) ==
    IF i > Len(items) THEN <<>>
    ELSE IF /\ Strptime(items[i].date) # ValueError
            /\ ToOrdinal(Strptime(items[i].date)) > ToOrdinal(current_date_obj)
         THEN <<items[i]>>
         ELSE FirstStrictlyLater(items, current_date_obj, i + 1)

\* the first item from position i on whose date parses and is on or after the reference
RECURSIVE FirstNotPassed(_, _, _)
FirstNotPassed(items, current_date_obj, i) ==
    IF i > Len(items) THEN <<>>
    ELSE IF /\ Strptime(items[i].date) # ValueError
            /\ DateGE(Strptime(items[i].date), current_date_obj)
         THEN <<items[i]>>
         ELSE FirstNotPassed(items, current_date_obj, i + 1)

\* variant: the reference date is ignored, the item of the lowest number is returned
NextFromFirstItem(all_items, date) ==
    IF all_items = <<>> THEN <<>> ELSE <<all_items[1]>>

\* lines 315-352 and 371-408: None is <<>>, a found item is <<item>>
\* variant: without a reference date nothing is returned
NextFromNoneWithoutDate(all_items, date) ==
    IF all_items = <<>> THEN <<>>
    ELSE IF date = "" THEN <<>>
    ELSE IF Strptime(date) = ValueError THEN <<all_items[1]>>
    ELSE FirstNotPassed(all_items, Strptime(date), 1)

NextFrom(all_items, date) ==
    IF all_items = <<>> THEN <<>>
    ELSE IF date = "" THEN <<all_items[1]>>
    ELSE IF Strptime(date) = ValueError THEN <<all_items[1]>>
    ELSE FirstNotPassed(all_items, Strptime(date), 1)

\* the collected list and the reference date are computed once
NextUpcoming(all_items, current_week_num) ==
    CHOOSE next \in {NextFrom(items, date) :
                        items \in {all_items},
                        date \in {current_date(current_week_num)}} : TRUE

find_next_quiz(current_week_num) == NextUpcoming(collect_quiz_dates, current_week_num)

find_next_checkout(current_week_num) ==
    NextUpcoming(collect_checkout_assignments, current_week_num)

(***************************************************************************)
(* The caller's queries on the returned mapping.                            *)
(***************************************************************************)
HwNumbers == {"1", "2"}
\* the weeks of the mapping, and the week after the sheet's first week
QueryWeeks == DOMAIN weeks \cup {weeks_column[i] + 1 : i \in DOMAIN weeks_column \cap {DATA_START_ROW}}

\* one call on the finished mapping
Asked(q) ==
    /\ pc = "done"
    /\ query = NoQuery
    /\ query' = q
    /\ UNCHANGED <<inputs, pc, index, weeks, week_keys, extras, error>>

FindHomeworkDueDateAcrossWeeks ==
    \E hw_number \in HwNumbers :
        Asked([op |-> "find_homework_due_date_across_weeks", hw_number |-> hw_number,
               ret |-> find_homework_due_date_across_weeks(hw_number)])

FindHomeworkDueDate ==
    \E hw_number \in HwNumbers :
        Asked([op |-> "find_homework_due_date", hw_number |-> hw_number,
               ret |-> find_homework_due_date(hw_number)])

FindHomeworkDueForCheckout ==
    \E w \in QueryWeeks :
        Asked([op |-> "find_homework_due_for_checkout", week |-> w,
               ret |-> find_homework_due_for_checkout(w)])

FindNextCheckout ==
    \E w \in QueryWeeks :
        Asked([op |-> "find_next_checkout", week |-> w, ret |-> find_next_checkout(w)])

DueQueries == FindHomeworkDueDateAcrossWeeks \/ FindHomeworkDueDate \/ FindHomeworkDueForCheckout

(***************************************************************************)
(* populate_weeks_utils.py: find_homework_assigned_date_across_weeks (lines *)
(* 551-572) and get_week_days_in_order (lines 575-632).                     *)
(***************************************************************************)
RECURSIVE FirstAssignedDay(_, _, _)
FirstAssignedDay(week_data, hw_number, d) ==
    IF d > Len(weekday_names) THEN 0
    ELSE LET day == weekday_names[d]
         IN IF /\ day \in DOMAIN week_data
               /\ "assigned" \in DOMAIN week_data[day]
               /\ week_data[day].assigned # ""
               /\ Contains(week_data[day].assigned, hw_number)
            THEN d
            ELSE FirstAssignedDay(week_data, hw_number, d + 1)

RECURSIVE AssignedDateFrom(_, _, _)
AssignedDateFrom(values, hw_number, i) ==
    IF i > Len(values) THEN "TBD"
    ELSE IF FirstAssignedDay(values[i], hw_number, 1) # 0
         THEN values[i][weekday_names[FirstAssignedDay(values[i], hw_number, 1)]].date
         ELSE AssignedDateFrom(values, hw_number, i + 1)

find_homework_assigned_date_across_weeks(hw_number) ==
    AssignedDateFrom(WeekValues, hw_number, 1)

\* str.capitalize()
Capitalize(s) == IF s = "" THEN "" ELSE UpperChar(Char(s, 1)) \o Lower(SubSeq(s, 2, Len(s)))

\* datetime.max as a sort key: later than every day
DatetimeMax == 3652060

\* lines 602-622: the days of the week in weekday order, each with its sort key
RECURSIVE DaysFound(_, _)
DaysFound(week_data, d) ==
    IF d > Len(weekday_names) THEN <<>>
    ELSE LET day_name == weekday_names[d]
         IN (IF day_name \in DOMAIN week_data
             THEN <<[day_name |-> day_name,
                     display_name |-> Capitalize(day_name),
                     date |-> week_data[day_name].date,
                     date_obj |-> IF week_data[day_name].date # ""
                                     /\ Strptime(week_data[day_name].date) # ValueError
                                  THEN ToOrdinal(Strptime(week_data[day_name].date))
                                  ELSE DatetimeMax,
                     data |-> week_data[day_name]]>>
             ELSE <<>>)
            \o DaysFound(week_data, d + 1)

\* lines 624-630: sorted by date, the sort key removed from the copies
get_week_days_in_order(week_data) ==
    LET sorted == SortByKey(DaysFound(week_data, 1), "date_obj")
    IN [i \in 1..Len(sorted) |->
            [day_name |-> sorted[i].day_name, display_name |-> sorted[i].display_name,
             date |-> sorted[i].date, data |-> sorted[i].data]]

FindHomeworkAssignedDateAcrossWeeks ==
    \E hw_number \in HwNumbers :
        Asked([op |-> "find_homework_assigned_date_across_weeks", hw_number |-> hw_number,
               ret |-> find_homework_assigned_date_across_weeks(hw_number)])

CollectQuizDates == Asked([op |-> "collect_quiz_dates", ret |-> collect_quiz_dates])

CollectCheckoutAssignments ==
    Asked([op |-> "collect_checkout_assignments", ret |-> collect_checkout_assignments])

GetWeekDaysInOrder ==
    \E w \in DOMAIN weeks :
        Asked([op |-> "get_week_days_in_order", week |-> w,
               ret |-> get_week_days_in_order(weeks[w])])

\* variant: the lookup of the current week creates the week when it is missing
FindNextQuizSetDefault ==
    \E w \in QueryWeeks :
        /\ pc = "done"
        /\ query = NoQuery
        /\ query' = [op |-> "find_next_quiz", week |-> w, ret |-> find_next_quiz(w)]
        /\ weeks' = IF w \in DOMAIN weeks THEN weeks
                    ELSE [k \in DOMAIN weeks \cup {w} |->
                             IF k = w THEN [module |-> EmptyModule] ELSE weeks[k]]
        /\ UNCHANGED <<inputs, pc, index, week_keys, extras, error>>

FindNextQuiz ==
    \E w \in QueryWeeks :
        Asked([op |-> "find_next_quiz", week |-> w, ret |-> find_next_quiz(w)])

\* the caller is done with the result of a query and goes on
NextCall ==
    /\ pc = "done"
    /\ query.op \notin {"none", "populate_weeks", "upload_to_canvas"}
    /\ query' = NoQuery
    /\ UNCHANGED <<inputs, pc, index, weeks, week_keys, extras, error>>

NextItemQueries == FindNextQuiz \/ FindNextCheckout

CollectQueries ==
    \/ FindHomeworkAssignedDateAcrossWeeks
    \/ CollectQuizDates
    \/ CollectCheckoutAssignments
    \/ GetWeekDaysInOrder

(***************************************************************************)
(* quiz_utils.py, get_homework_range_for_module (lines 118-163).            *)
(***************************************************************************)
\* lines 140-143 and 146-149: the number after the first "HW" of a text, as a list
HomeworkNumberIn(text) ==
    IF text # "" /\ Contains(Upper(text), "HW") /\ ReSearchNumber("HW", text) # NoMatch
    THEN <<PyInt(ReSearchNumber("HW", text))>>
    ELSE <<>>

\* variant: only the due text of a day is read
HomeworkNumbersOfDueOnly(day_data) == HomeworkNumberIn(day_data.due)

\* lines 136-149
HomeworkNumbersOfDay(day_data) ==
    HomeworkNumberIn(day_data.assigned) \o HomeworkNumberIn(day_data.due)

\* lines 134-149, from position d of the weekday list on
RECURSIVE HomeworkNumbersOfWeek(_, _)
HomeworkNumbersOfWeek(week_data, d) ==
    IF d > Len(weekday_names) THEN <<>>
    ELSE (IF weekday_names[d] \in DOMAIN week_data
          THEN HomeworkNumbersOfDay(week_data[weekday_names[d]])
          ELSE <<>>)
         \o HomeworkNumbersOfWeek(week_data, d + 1)

\* lines 131-149: week_data.get("module") == module_number, over every value of the dict
RECURSIVE HomeworkNumbersFrom(_, _, _)
HomeworkNumbersFrom(values, module_number, i) ==
    IF i > Len(values) THEN <<>>
    ELSE (IF "module" \in DOMAIN values[i] /\ values[i].module = module_number
          THEN HomeworkNumbersOfWeek(values[i], 1)
          ELSE <<>>)
         \o HomeworkNumbersFrom(values, module_number, i + 1)

\* sorted(list(set(...))) of a list of ints
RECURSIVE SortedSet(_)
SortedSet(S) == IF S = {} THEN <<>> ELSE <<MinOf(S)>> \o SortedSet(S \ {MinOf(S)})

\* f"HW{n:02d}"
FormatHomework(n) == "HW" \o ZeroPad(PyStr(n), 2)

\* lines 151-163
HomeworkRangeOf(homework_numbers, module_number) ==
    IF homework_numbers = <<>> THEN FormatHomework(module_number)
    ELSE LET sorted == SortedSet({homework_numbers[i] : i \in 1..Len(homework_numbers)})
         IN IF Len(sorted) = 1 THEN FormatHomework(sorted[1])
            ELSE IF Len(sorted) = 2
            THEN FormatHomework(sorted[1]) \o " & " \o FormatHomework(sorted[2])
            ELSE FormatHomework(sorted[1]) \o "-" \o FormatHomework(sorted[Len(sorted)])

\* the list is collected once
get_homework_range_for_module(module_number) ==
    CHOOSE range \in {HomeworkRangeOf(homework_numbers, module_number) :
                         homework_numbers \in {HomeworkNumbersFrom(AllValues, module_number, 1)}}
        : TRUE

ModuleNumbers == {1, 2, 3}

GetHomeworkRangeForModule ==
    \E module_number \in ModuleNumbers :
        Asked([op |-> "get_homework_range_for_module", module_number |-> module_number,
               ret |-> get_homework_range_for_module(module_number)])

(***************************************************************************)
(* quiz_utils.py, get_lesson_range_for_module (lines 7-115).  The function  *)
(* reads the schedule sheet again; the model reads df, the same sheet.      *)
(***************************************************************************)
\* the position after an optional character c at position i
SkipOptional(s, i, c) == IF i <= Len(s) /\ Char(s, i) = c THEN i + 1 ELSE i

\* line 48 at position i: (?:Module?\.?\s*)? then the greedy (\d+); group 1 or NoMatch
ModuleMatchAt(s, i) ==
    IF i + 4 <= Len(s) /\ Lower(SubSeq(s, i, i + 4)) = "modul"
       /\ DigitRun(s, SkipSpaces(s, SkipOptional(s,
              IF i + 5 <= Len(s) /\ Lower(Char(s, i + 5)) = "e" THEN i + 6 ELSE i + 5, "."))) # ""
    THEN DigitRun(s, SkipSpaces(s, SkipOptional(s,
              IF i + 5 <= Len(s) /\ Lower(Char(s, i + 5)) = "e" THEN i + 6 ELSE i + 5, ".")))
    ELSE DigitRun(s, i)

RECURSIVE ModuleSearchFrom(_, _)
ModuleSearchFrom(s, i) ==
    IF i > Len(s) THEN NoMatch
    ELSE IF ModuleMatchAt(s, i) # NoMatch THEN ModuleMatchAt(s, i)
    ELSE ModuleSearchFrom(s, i + 1)

\* lines 44-50: extracted_module as an optional value, <<>> for None
ExtractedModule(module_cell) ==
    IF module_cell # "" /\ ModuleSearchFrom(module_cell, 1) # NoMatch
    THEN <<PyInt(ModuleSearchFrom(module_cell, 1))>>
    ELSE <<>>

\* lines 53 and 64: a lesson that is neither empty nor the placeholder
ValidLesson(lesson) == lesson # "" /\ lesson # "-"

\* lines 69-73 and 92-96: the first valid lesson from row back_idx backwards, or end_lesson
RECURSIVE BackLesson(_, _, _)
BackLesson(d, back_idx, end_lesson) ==
    IF back_idx <= 0 THEN end_lesson
    ELSE IF ValidLesson(Strip(d[back_idx].lesson)) THEN Strip(d[back_idx].lesson)
    ELSE BackLesson(d, back_idx - 1, end_lesson)

\* variant: the lesson cell of the previous row, whatever it holds
EndLessonOfPreviousRow(d, start_lesson, prev_index) == Strip(d[prev_index].lesson)

\* lines 61-75: the end lesson of the module closed at row prev_index + 1
EndLessonBefore(d, start_lesson, prev_index) ==
    IF prev_index > 0
    THEN IF ValidLesson(Strip(d[prev_index].lesson)) THEN Strip(d[prev_index].lesson)
         ELSE BackLesson(d, prev_index, start_lesson)
    ELSE start_lesson

\* lines 77-80 and 98-101
LessonRangeText(start_lesson, end_lesson) ==
    IF start_lesson = end_lesson THEN start_lesson ELSE start_lesson \o "-" \o end_lesson

NoModuleOpen ==
    [module_ranges |-> <<>>, current_module |-> <<>>, start_lesson |-> ""]

\* lines 36-84: one row of the scan
ScanRow(d, st, i) ==
    LET module_cell == Strip(d[i].module)
        lesson_cell == Strip(d[i].lesson)
        extracted_module == ExtractedModule(module_cell)
        truthy == extracted_module # <<>> /\ extracted_module[1] # 0
    IN IF ValidLesson(lesson_cell)
          /\ (st.current_module = <<>> \/ (truthy /\ extracted_module # st.current_module))
       THEN [module_ranges |->
                IF st.current_module # <<>> /\ st.start_lesson # ""
                THEN [m \in DOMAIN st.module_ranges \cup {st.current_module[1]} |->
                        IF m = st.current_module[1]
                        THEN LessonRangeText(st.start_lesson,
                                             EndLessonBefore(d, st.start_lesson, i - 1))
                        ELSE st.module_ranges[m]]
                ELSE st.module_ranges,
             current_module |-> IF truthy THEN extracted_module ELSE st.current_module,
             start_lesson |-> IF truthy THEN lesson_cell ELSE st.start_lesson]
       ELSE st

\* the scan after rows 1..i
RECURSIVE ScanRows(_, _)
ScanRows(d, i) == IF i < DATA_START_ROW THEN NoModuleOpen ELSE ScanRow(d, ScanRows(d, i - 1), i)

\* lines 86-101: the last module ends at the last valid lesson of the sheet
CloseLastModule(d, st) ==
    IF st.current_module # <<>> /\ st.start_lesson # ""
    THEN [m \in DOMAIN st.module_ranges \cup {st.current_module[1]} |->
            IF m = st.current_module[1]
            THEN LessonRangeText(st.start_lesson,
                                 BackLesson(d, Cardinality(DOMAIN d) - 1, st.start_lesson))
            ELSE st.module_ranges[m]]
    ELSE st.module_ranges

\* lines 103-107
LessonRangeFrom(module_ranges, module_number) ==
    IF module_number \in DOMAIN module_ranges THEN module_ranges[module_number]
    ELSE PyStr(module_number) \o "A-" \o PyStr(module_number) \o "D"

get_lesson_range_for_module(module_number) ==
    CHOOSE range \in {LessonRangeFrom(module_ranges, module_number) :
                         module_ranges \in {CloseLastModule(df, ScanRows(df, LastIndex))}}
        : TRUE

GetLessonRangeForModule ==
    \E module_number \in ModuleNumbers :
        Asked([op |-> "get_lesson_range_for_module", module_number |-> module_number,
               ret |-> get_lesson_range_for_module(module_number)])

RangeQueries == GetHomeworkRangeForModule \/ GetLessonRangeForModule

(***************************************************************************)
(* Assignment texts: up to MaxTokens tokens joined by blanks.               *)
(***************************************************************************)
TextTokens == {"HW 5", "hw7", "Homework 2", "Assignment 3", "HW", "12", "read"}

RECURSIVE JoinTokens(_)
JoinTokens(tokens) ==
    IF tokens = <<>> THEN ""
    ELSE IF Len(tokens) = 1 THEN tokens[1]
    ELSE tokens[1] \o " " \o JoinTokens(Tail(tokens))

AssignmentTexts(maxtokens) ==
    UNION {{JoinTokens(tokens) : tokens \in [1..n -> TextTokens]} : n \in 0..maxtokens}

(***************************************************************************)
(* build_htmls/build_hw.py, extract_homework_number (lines 96-109).         *)
(***************************************************************************)
\* line 102
patterns == <<"HW", "Homework", "Assignment">>

\* lines 104-107, from pattern p on
RECURSIVE FirstPatternNumber(_, _, _)
FirstPatternNumber(keywords, assignment_text, p) ==
    IF p > Len(keywords) THEN PyNone
    ELSE IF ReSearchNumber(keywords[p], assignment_text) # NoMatch
    THEN ReSearchNumber(keywords[p], assignment_text)
    ELSE FirstPatternNumber(keywords, assignment_text, p + 1)

\* variant: the patterns tried in the opposite order
ExtractAssignmentFirst(assignment_text) ==
    IF assignment_text = "" THEN PyNone
    ELSE FirstPatternNumber(<<"Assignment", "Homework", "HW">>, assignment_text, 1)

extract_homework_number(assignment_text) ==
    IF assignment_text = "" THEN PyNone
    ELSE FirstPatternNumber(patterns, assignment_text, 1)

\* one call of the extractor, on any text
ExtractHomeworkNumber(texts) ==
    \E assignment_text \in texts :
        /\ query = NoQuery
        /\ query' = [op |-> "extract_homework_number", text |-> assignment_text,
                     ret |-> extract_homework_number(assignment_text)]
        /\ UNCHANGED <<inputs, pc, index, weeks, week_keys, extras, error>>

(***************************************************************************)
(* populate_weeks called a second time with the same arguments: the first   *)
(* result is kept by the caller, every local of the function starts afresh. *)
(***************************************************************************)
PopulateWeeksAgain ==
    /\ pc = "done"
    /\ query = NoQuery
    /\ query' = [op |-> "populate_weeks", weeks |-> weeks, week_keys |-> week_keys,
                 extras |-> extras]
    /\ pc' = "start"
    /\ index' = 0
    /\ weeks' = <<>>
    /\ week_keys' = <<>>
    /\ extras' = <<>>
    /\ error' = ""
    /\ UNCHANGED inputs

(***************************************************************************)
(* populate_weeks_utils.py: get_week_title_with_topic_and_date (lines       *)
(* 25-87) and find_quiz_or_checkout_in_week (lines 90-143).                 *)
(***************************************************************************)
\* lines 61-72: topic and earliest_date after the days from position d on; the loop
\* ends at the first day that has a date
RECURSIVE TopicAndDate(_, _, _)
TopicAndDate(week_data, topic, d) ==
    IF d > Len(weekday_names) THEN [topic |-> topic, earliest_date |-> ""]
    ELSE IF weekday_names[d] \notin DOMAIN week_data THEN TopicAndDate(week_data, topic, d + 1)
    ELSE LET day_data == week_data[weekday_names[d]]
             found == IF topic = "" /\ day_data.topic # "" THEN Strip(day_data.topic) ELSE topic
         IN IF day_data.date # ""
            THEN [topic |-> found, earliest_date |-> Strip(day_data.date)]
            ELSE TopicAndDate(week_data, found, d + 1)

RECURSIVE find_quiz_or_checkout_in_week(_, _)
find_quiz_or_checkout_in_week(week_data, d) ==
    IF d > Len(weekday_names) THEN ""
    ELSE IF weekday_names[d] \notin DOMAIN week_data
            \/ week_data[weekday_names[d]].topic = ""
    THEN find_quiz_or_checkout_in_week(week_data, d + 1)
    ELSE LET topic_str == Upper(Strip(week_data[weekday_names[d]].topic))
         IN IF Contains(topic_str, "QUIZ")
            THEN (IF ReSearchNumber("QUIZ", topic_str) # NoMatch
                  THEN "Quiz " \o ReSearchNumber("QUIZ", topic_str) ELSE "Quiz")
            ELSE IF Contains(topic_str, "CHECKOUT")
            THEN (IF ReSearchNumber("CHECKOUT", topic_str) # NoMatch
                  THEN "Checkout " \o ReSearchNumber("CHECKOUT", topic_str) ELSE "Checkout")
            ELSE find_quiz_or_checkout_in_week(week_data, d + 1)

get_week_title_with_topic_and_date(display_week_num) ==
    IF display_week_num \notin DOMAIN weeks THEN "Week " \o PyStr(display_week_num)
    ELSE LET found == TopicAndDate(weeks[display_week_num], "", 1)
             quiz_checkout_info == find_quiz_or_checkout_in_week(weeks[display_week_num], 1)
             base_title ==
                 IF found.topic # "" /\ found.earliest_date # ""
                 THEN "Week " \o PyStr(display_week_num) \o ": " \o found.topic
                          \o " (" \o found.earliest_date \o ")"
                 ELSE IF found.topic # ""
                 THEN "Week " \o PyStr(display_week_num) \o ": " \o found.topic
                 ELSE "Week " \o PyStr(display_week_num)
         IN IF quiz_checkout_info # "" THEN base_title \o " - " \o quiz_checkout_info
            ELSE base_title

(***************************************************************************)
(* main.py, upload_to_canvas (lines 308-497): the title given to each item. *)
(* The number in a title is the one in the name of the generated file.      *)
(***************************************************************************)
\* build_hw.py lines 31-58: the homework numbers that get a file
HomeworkFileNumbers ==
    {extract_homework_number(AllValues[i][day].assigned) :
        <<i, day>> \in {p \in (1..Len(AllValues)) \X WeekdaySet :
                          /\ p[2] \in DOMAIN AllValues[p[1]]
                          /\ AllValues[p[1]][p[2]].assigned # ""
                          /\ Contains(Upper(AllValues[p[1]][p[2]].assigned), "HW")
                          /\ extract_homework_number(AllValues[p[1]][p[2]].assigned) # PyNone}}

\* build_quiz.py line 102 and build_checkout.py line 102
QuizFileNumbers == {PyStr(collect_quiz_dates[i].quiz_number) : i \in 1..Len(collect_quiz_dates)}
CheckoutFileNumbers ==
    {PyStr(collect_checkout_assignments[i].checkout_number) :
        i \in 1..Len(collect_checkout_assignments)}

\* main.py lines 313, 387 and 482
HomeworkTitle(hw_number) == "HW" \o ZeroPad(PyStr(PyInt(hw_number)), 2)
QuizTitle(quiz_number) == "Quiz" \o quiz_number
CheckoutTitle(checkout_number) == "Checkout" \o checkout_number

(***************************************************************************)
(* build_weekly_page.py, build_html (lines 24-150): the weekly files and    *)
(* the navigation links of each page.                                       *)
(***************************************************************************)
\* line 50: the numeric keys in increasing order
keys == SortedSet(DOMAIN weeks)

\* lines 75-102 for the page at position i of keys: the titles and slugs of the two links,
\* <<>> for a slug that stays None
NavigationLinks(i) ==
    LET display_week_num == keys[i]
        prev_week_num == display_week_num - 1
        next_week_num == display_week_num + 1
    IN [prev_slug |-> IF prev_week_num > 0
                      THEN <<title_to_url_safe(
                                 get_week_title_with_topic_and_date(prev_week_num))>>
                      ELSE <<>>,
        prev_week_title |-> IF prev_week_num > 0
                            THEN get_week_title_with_topic_and_date(prev_week_num) ELSE "",
        next_slug |-> IF i < Len(keys)
                      THEN <<title_to_url_safe(
                                 get_week_title_with_topic_and_date(next_week_num))>>
                      ELSE <<>>,
        next_week_title |-> IF i < Len(keys)
                            THEN get_week_title_with_topic_and_date(next_week_num) ELSE ""]

\* build_html on the finished mapping; lines 52-55 raise without a course id
BuildHtml ==
    Asked(IF course_id = ""
          THEN [op |-> "build_html", raised |-> "ValueError"]
          ELSE [op |-> "build_html", raised |-> "",
                navigation |-> [i \in 1..Len(keys) |-> NavigationLinks(i)]])

(***************************************************************************)
(* upload_to_canvas.py, upload_page (lines 6-42).                           *)
(***************************************************************************)
\* \w after lower()
IsWordChar(c) == IsSlugChar(c) \/ c = "_"

\* re.sub(r"\W+", "_", s)
RECURSIVE UnderscoreRuns(_, _)
UnderscoreRuns(s, inRun) ==
    IF Len(s) = 0 THEN ""
    ELSE IF IsWordChar(Char(s, 1))
         THEN Char(s, 1) \o UnderscoreRuns(SubSeq(s, 2, Len(s)), FALSE)
         ELSE (IF inRun THEN "" ELSE "_") \o UnderscoreRuns(SubSeq(s, 2, Len(s)), TRUE)

\* str.strip("_")
RECURSIVE StripUnderscores(_)
StripUnderscores(s) ==
    IF Len(s) > 0 /\ Char(s, 1) = "_" THEN StripUnderscores(SubSeq(s, 2, Len(s)))
    ELSE IF Len(s) > 0 /\ Char(s, Len(s)) = "_"
    THEN StripUnderscores(SubSeq(s, 1, Len(s) - 1))
    ELSE s

\* line 21
slug(title) == StripUnderscores(UnderscoreRuns(Lower(title), FALSE))

(***************************************************************************)
(* main.py, upload_to_canvas and its generator generate_upload_events       *)
(* (lines 266-651).  query.events is the stream sent so far, the four file  *)
(* lists hold the number in the name of each generated file, and            *)
(* query.attempted holds the files the loops have gone through.  An event   *)
(* of a page carries the slug upload_page put in its request.  The loops    *)
(* take the files in the order of glob, any order here.                     *)
(***************************************************************************)
Attempted(item_type, numbers) == \A n \in numbers : <<item_type, n>> \in query.attempted

\* one pass through the body of a loop: a "success" or an "error" event
UploadEvent(item_type, number, title, page_url) ==
    \E type \in {"success", "error"} :
        /\ query' = [query EXCEPT
                        !.events = Append(@, [type |-> type, item_type |-> item_type,
                                              title |-> title, page_url |-> page_url]),
                        !.attempted = @ \cup {<<item_type, number>>}]
        /\ UNCHANGED <<inputs, pc, index, weeks, week_keys, extras, error>>

\* variant of the guard of a later loop: the loop does not wait for the earlier ones
PhaseOpenAtOnce(item_type, numbers) == TRUE

\* the loops that come before a loop have gone through all their files
PhaseDone(item_type, numbers) == Attempted(item_type, numbers)

Uploading == pc = "done" /\ query.op = "upload_to_canvas" /\ ~query.complete

\* lines 272-284 and 655-680: build_html has left files, course id and token are set
StartUpload ==
    /\ pc = "done"
    /\ query.op = "build_html" /\ query.raised = ""
    /\ keys # <<>>
    /\ course_id # ""
    /\ query' = [op |-> "upload_to_canvas", navigation |-> query.navigation,
                 events |-> <<[type |-> "start"]>>,
                 homework_files |-> HomeworkFileNumbers,
                 quiz_files |-> QuizFileNumbers,
                 checkout_files |-> CheckoutFileNumbers,
                 weekly_files |-> {PyStr(display_week_num) : display_week_num \in DOMAIN weeks},
                 attempted |-> {}, complete |-> FALSE]
    /\ UNCHANGED <<inputs, pc, index, weeks, week_keys, extras, error>>

\* lines 309-380
UploadHomework ==
    /\ Uploading
    /\ \E hw_number \in query.homework_files :
          /\ <<"homework", hw_number>> \notin query.attempted
          /\ UploadEvent("homework", hw_number, HomeworkTitle(hw_number), "")

\* lines 382-465
UploadQuiz ==
    /\ Uploading
    /\ PhaseDone("homework", query.homework_files)
    /\ \E quiz_number \in query.quiz_files :
          /\ <<"quiz", quiz_number>> \notin query.attempted
          /\ UploadEvent("quiz", quiz_number, QuizTitle(quiz_number), "")

\* lines 467-549
UploadCheckout ==
    /\ Uploading
    /\ PhaseDone("homework", query.homework_files) /\ PhaseDone("quiz", query.quiz_files)
    /\ \E checkout_number \in query.checkout_files :
          /\ <<"checkout", checkout_number>> \notin query.attempted
          /\ UploadEvent("checkout", checkout_number, CheckoutTitle(checkout_number), "")

\* lines 551-626
UploadWeeklyPage ==
    /\ Uploading
    /\ PhaseDone("homework", query.homework_files) /\ PhaseDone("quiz", query.quiz_files)
    /\ PhaseDone("checkout", query.checkout_files)
    /\ \E display_week_num \in {n \in DOMAIN weeks : PyStr(n) \in query.weekly_files} :
          /\ <<"page", PyStr(display_week_num)>> \notin query.attempted
          /\ UploadEvent("page", PyStr(display_week_num),
                         get_week_title_with_topic_and_date(display_week_num),
                         slug(get_week_title_with_topic_and_date(display_week_num)))

\* lines 628-638
CompleteUpload ==
    /\ Uploading
    /\ PhaseDone("homework", query.homework_files) /\ PhaseDone("quiz", query.quiz_files)
    /\ PhaseDone("checkout", query.checkout_files)
    /\ PhaseDone("page", query.weekly_files)
    /\ query' = [query EXCEPT !.events = Append(@, [type |-> "complete"]),
                              !.complete = TRUE]
    /\ UNCHANGED <<inputs, pc, index, weeks, week_keys, extras, error>>

Upload ==
    StartUpload \/ UploadHomework \/ UploadQuiz \/ UploadCheckout \/ UploadWeeklyPage
        \/ CompleteUpload

(***************************************************************************)
(* delete_canvas_items.py, lines 76-114: the two filters.  Every pattern is *)
(* anchored at both ends and ignores case.                                  *)
(***************************************************************************)
StartsWithIgnoreCase(text, keyword) ==
    Len(text) >= Len(keyword) /\ Lower(SubSeq(text, 1, Len(keyword))) = Lower(keyword)

\* the text from position i to its end is a run of digits of at least one digit
DigitsToEnd(text, i) == i <= Len(text) /\ AllDigits(SubSeq(text, i, Len(text)))

\* ^Week\s+\d+.*$
week_pattern(title) ==
    /\ StartsWithIgnoreCase(title, "Week")
    /\ SkipSpaces(title, 5) > 5
    /\ DigitRun(title, SkipSpaces(title, 5)) # ""
    /\ \A k \in 1..Len(title) : Char(title, k) # "\n"

\* ^HW\d{2}$
homework_pattern(title) ==
    StartsWithIgnoreCase(title, "HW") /\ Len(title) = 4 /\ DigitsToEnd(title, 3)

\* ^Checkout\d+$
checkout_pattern(name) == StartsWithIgnoreCase(name, "Checkout") /\ DigitsToEnd(name, 9)

\* ^Quiz\s+\d+$
quiz_pattern(name) ==
    /\ StartsWithIgnoreCase(name, "Quiz")
    /\ SkipSpaces(name, 5) > 5
    /\ DigitsToEnd(name, SkipSpaces(name, 5))

filter_pages_to_delete(pages) ==
    SelectSeq(pages, LAMBDA title : week_pattern(title) \/ homework_pattern(title))

filter_assignments_to_delete(assignments) ==
    SelectSeq(assignments,
              LAMBDA name : checkout_pattern(name) \/ quiz_pattern(name) \/ homework_pattern(name))

\* the deletion utility lists the course, which holds an uploaded item, and filters it
FilterItemsToDelete ==
    /\ pc = "done"
    /\ query.op = "upload_to_canvas"
    /\ \E i \in 1..Len(query.events) :
          /\ query.events[i].type = "success"
          /\ query' = [op |-> "filter_to_delete", item_type |-> query.events[i].item_type,
                       title |-> query.events[i].title,
                       pages_to_delete |->
                           filter_pages_to_delete(IF query.events[i].item_type = "page"
                                                  THEN <<query.events[i].title>> ELSE <<>>),
                       assignments_to_delete |->
                           filter_assignments_to_delete(
                               IF query.events[i].item_type = "page"
                               THEN <<>> ELSE <<query.events[i].title>>)]
    /\ UNCHANGED <<inputs, pc, index, weeks, week_keys, extras, error>>

\* the caller asks for the title of a week
GetWeekTitleWithTopicAndDate ==
    \E display_week_num \in QueryWeeks :
        Asked([op |-> "get_week_title_with_topic_and_date",
               display_week_num |-> display_week_num,
               ret |-> get_week_title_with_topic_and_date(display_week_num)])

(***************************************************************************)
(* delete_canvas_items.py, delete_all_matching_items (lines 168-225).  The  *)
(* course holds the pages all_pages and the assignments all_assignments;    *)
(* confirm is the answer typed at the prompt, failed the items whose delete *)
(* request Canvas refuses.  requests is the list of delete requests sent.   *)
(***************************************************************************)
\* variant of line 203: the answer is not looked at
ConfirmedAlways(confirm) == TRUE

\* line 203: confirm.lower() != "yes" cancels
Confirmed(confirm) == Lower(confirm) = "yes"

\* lines 209-217: one request for each item of the two lists, pages first
DeleteRequests(pages_to_delete, assignments_to_delete) ==
    [i \in 1..Len(pages_to_delete) |-> [kind |-> "page", title |-> pages_to_delete[i]]]
        \o [i \in 1..Len(assignments_to_delete) |->
               [kind |-> "assignment", title |-> assignments_to_delete[i]]]

\* lines 209-217: the requests that succeeded
Deleted(to_delete, failed) == Cardinality({i \in 1..Len(to_delete) : to_delete[i] \notin failed})

delete_all_matching_items(all_pages, all_assignments, confirm, failed) ==
    LET pages_to_delete == filter_pages_to_delete(all_pages)
        assignments_to_delete == filter_assignments_to_delete(all_assignments)
        listing == [op |-> "delete_all_matching_items", all_pages |-> all_pages,
                    all_assignments |-> all_assignments]
    IN IF pages_to_delete = <<>> /\ assignments_to_delete = <<>>
       THEN listing @@ [prompted |-> FALSE, confirm |-> "", requests |-> <<>>,
                        ret |-> <<0, 0>>]
       ELSE IF ~Confirmed(confirm)
       THEN listing @@ [prompted |-> TRUE, confirm |-> confirm, requests |-> <<>>,
                        ret |-> <<0, 0>>]
       ELSE listing @@ [prompted |-> TRUE, confirm |-> confirm,
                        requests |-> DeleteRequests(pages_to_delete, assignments_to_delete),
                        ret |-> <<Deleted(pages_to_delete, failed),
                                  Deleted(assignments_to_delete, failed)>>]

\* the pages and assignments a course may hold, the answers, and the items Canvas may refuse
CoursePages == <<"Week 1: Statics (01/06/2025)", "HW01", "Syllabus">>
CourseAssignments == <<"HW01", "Quiz 1", "Checkout2", "Essay 1">>
Answers == {"yes", "YES", "no", ""}
Refused == {"HW01", "Quiz 1"}

\* the items of a list that a course holds
Held(items, held) == SelectSeq(items, LAMBDA title : title \in held)

\* the utility runs on a course; it does not read the schedule
DeleteAllMatchingItems ==
    /\ query = NoQuery
    /\ \E pages \in SUBSET {CoursePages[i] : i \in 1..Len(CoursePages)},
          assignments \in SUBSET {CourseAssignments[i] : i \in 1..Len(CourseAssignments)},
          confirm \in Answers, failed \in SUBSET Refused :
          query' = delete_all_matching_items(Held(CoursePages, pages),
                                             Held(CourseAssignments, assignments),
                                             confirm, failed)
    /\ UNCHANGED <<inputs, pc, index, weeks, week_keys, extras, error>>

Next ==
    Build \/ DueQueries \/ NextItemQueries \/ RangeQueries \/ CollectQueries \/ NextCall
        \/ PopulateWeeksAgain \/ ExtractHomeworkNumber(AssignmentTexts(MaxTokens))
        \/ BuildHtml \/ Upload \/ FilterItemsToDelete \/ GetWeekTitleWithTopicAndDate
        \/ DeleteAllMatchingItems

(***************************************************************************)
(* The sheets and YAML data of the checked instances.                       *)
(***************************************************************************)
\* row 0 of the frame, which the walker skips
SkippedRow == ScheduleRow(NaN, "", "", Text(""), "", "", "", "", "")

Sheets(rowset, maxrows) ==
    UNION {{[i \in 0..n |-> IF i = 0 THEN SkippedRow ELSE rows[i]] : rows \in [1..n -> rowset]}
           : n \in 0..maxrows}

Overview(weekset) == [w \in weekset |-> [description |-> "Overview of week " \o PyStr(w)]]
Images(weekset) == [w \in weekset |-> [image_name |-> "week" \o PyStr(w) \o ".png"]]
Objectives(modules) ==
    [m \in modules |-> [learning_objectives |-> <<"LO1 of module " \o PyStr(m)>>,
                        learning_objectives_topic |-> "Module " \o PyStr(m)]]

SheetWeeks == {1, 2, 3, 4, 5, 6, 8}

FixedInputs ==
    /\ overview_data = Overview(SheetWeeks)
    /\ image_urls = Images(SheetWeeks)
    /\ objective_data = Objectives({1, 2})
    /\ sample_quiz_urls = <<>>
    /\ course_id = ""
    /\ lecture_info = [lecture_days |-> "Monday, Wednesday, & Friday"]

\* due-date sheets: weeks 1 and 8, a Wednesday and the Monday after, four due texts
DueRows ==
    {ScheduleRow(week, "Mod 1", "1A", date, "Lecture", "", "", due, "") :
        week \in {NaN, 1, 8},
        date \in {Timestamp(2025, 1, 8), Timestamp(2025, 1, 13)},
        due \in {"", "HW1", "hw 10", "HW TBD"}}

InitDue ==
    /\ df \in Sheets(DueRows, MaxRows)
    /\ FixedInputs
    /\ InitProgram

SpecDue == InitDue /\ [][Build \/ DueQueries]_vars

\* a few mixed rows, every query
MixedRows ==
    {ScheduleRow(week, "Mod 1", "1A", date, topic, "", "", "HW1", "") :
        week \in {1, 2},
        date \in {Text("TBA"), Timestamp(2025, 1, 8)},
        topic \in {"Quiz 1", "Checkout 1"}}

Init ==
    /\ df \in Sheets(MixedRows, MaxRows)
    /\ FixedInputs
    /\ InitProgram

Spec == Init /\ [][Next]_vars

\* walker sheets: week cells with gaps, module cells, a leap day (a Thursday) and a year's
\* last day (a Sunday)
BuildRows ==
    {ScheduleRow(week, module, "1A", date, "Lecture", "", "", "", "") :
        week \in {NaN, 1, 2},
        module \in {"", "Mod 1", "Module 2"},
        date \in {Text("TBA"), Timestamp(2024, 2, 29), Timestamp(2023, 12, 31)}}

InitBuild ==
    /\ df \in Sheets(BuildRows, MaxRows)
    /\ overview_data \in {Overview(SheetWeeks), Overview({1})}
    /\ image_urls = Images(SheetWeeks)
    /\ objective_data \in {Objectives({1, 2}), Objectives({1})}
    /\ sample_quiz_urls = <<>>
    /\ course_id = ""
    /\ lecture_info = [lecture_days |-> "Monday, Wednesday, & Friday"]
    /\ InitProgram

SpecBuild == InitBuild /\ [][Build]_vars

(***************************************************************************)
(* Properties of the walker.                                                *)
(***************************************************************************)
\* the day records of a mapping, without the other keys of its week records
Days(wks) == [w \in DOMAIN wks |-> [day \in DOMAIN wks[w] \cap WeekdaySet |-> wks[w][day]]]

\* the rows the loop has finished
ProcessedRows == {i \in DOMAIN weeks_column : pc \in {"rows", "joined", "done"} /\ i < index}

\* the nearest non-empty week cell at or above data row i
NearestWeekCell(i) ==
    df[CHOOSE j \in DATA_START_ROW..i :
            /\ df[j].week # NaN
            /\ \A k \in (j + 1)..i : df[k].week = NaN].week

\* Zeller's congruence: 0 = Saturday, 1 = Sunday, 2 = Monday, ...
Zeller(date) ==
    LET mm == IF date.m < 3 THEN date.m + 12 ELSE date.m
        yy == IF date.m < 3 THEN date.y - 1 ELSE date.y
    IN (date.d + ((13 * (mm + 1)) \div 5) + (yy % 100) + ((yy % 100) \div 4)
        + ((yy \div 100) \div 4) + 5 * (yy \div 100)) % 7

CalendarDayName(date) ==
    <<"saturday", "sunday", "monday", "tuesday", "wednesday", "thursday", "friday">>[Zeller(date) + 1]

\* text is MM/DD/YYYY for the date
IsMMDDYYYY(text, date) ==
    /\ Len(text) = 10
    /\ Char(text, 3) = "/" /\ Char(text, 6) = "/"
    /\ AllDigits(SubSeq(text, 1, 2)) /\ PyInt(SubSeq(text, 1, 2)) = date.m
    /\ AllDigits(SubSeq(text, 4, 5)) /\ PyInt(SubSeq(text, 4, 5)) = date.d
    /\ AllDigits(SubSeq(text, 7, 10)) /\ PyInt(SubSeq(text, 7, 10)) = date.y

\* the last finished row of week w whose date falls on the given day name
LastRowOn(w, day) ==
    {i \in ProcessedRows :
        /\ NearestWeekCell(i) = w /\ IsTimestamp(df[i].date) /\ CalendarDayName(df[i].date) = day
        /\ \A k \in ProcessedRows :
              (k > i /\ NearestWeekCell(k) = w /\ IsTimestamp(df[k].date))
                  => CalendarDayName(df[k].date) # day}

\* C1: every day record is stored under the calendar weekday of the date of the row it
\* comes from, with that date as MM/DD/YYYY, and every finished row with a timestamp has
\* its record under that weekday.
C1_WeekdayKeyIsDayOfWeek ==
    pc \in {"rows", "joined", "done"} =>
        \A w \in DOMAIN weeks : \A day \in WeekdaySet :
            /\ day \in DOMAIN weeks[w] <=> LastRowOn(w, day) # {}
            /\ \A i \in LastRowOn(w, day) : IsMMDDYYYY(weeks[w][day].date, df[i].date)

C1_Witness ==
    /\ pc = "done"
    /\ \E w \in DOMAIN weeks :
          /\ "thursday" \in DOMAIN weeks[w] /\ weeks[w]["thursday"].date = "02/29/2024"
          /\ "sunday" \in DOMAIN weeks[w] /\ weeks[w]["sunday"].date = "12/31/2023"

\* C3: every week number of the forward-filled week column is a key of the returned mapping.
C3_EveryColumnWeekIsKey ==
    pc = "done" => \A i \in DATA_START_ROW..LastIndex : NearestWeekCell(i) \in DOMAIN weeks

\* a returned mapping with a week none of whose rows has a timestamp
C3_Witness ==
    /\ pc = "done"
    /\ \E w \in DOMAIN weeks :
          /\ DOMAIN weeks[w] \cap WeekdaySet = {}
          /\ \E v \in DOMAIN weeks : DOMAIN weeks[v] \cap WeekdaySet # {}

\* the condition under which lines 56-59 fail on row i: an empty module cell on the first
\* data row, or a cell without a digit
ModuleCellFails(i) ==
    \/ df[i].module = "" /\ i = DATA_START_ROW
    \/ df[i].module # "" /\ \A k \in 1..Len(df[i].module) : ~IsDigit(Char(df[i].module, k))

C5_MissingObjectivesAbort ==
    /\ (/\ pc \in {"joined", "done", "error"}
        /\ index > LastIndex
        /\ \E w \in DOMAIN weeks : weeks[w].module \notin DOMAIN objective_data)
       => (pc = "error" /\ error = "KeyError" /\ extras = <<>>)
    /\ pc \in {"joined", "done"} =>
          \A w \in DOMAIN weeks :
              /\ weeks[w].module \in DOMAIN objective_data
              /\ weeks[w].learning_objectives
                    = <<"LO1 of module " \o PyStr(weeks[w].module)>>

C5_Witness ==
    /\ pc = "error" /\ error = "KeyError" /\ index > LastIndex
    /\ \E w \in DOMAIN weeks : weeks[w].module = 2 /\ 2 \notin DOMAIN objective_data
    /\ \E w \in DOMAIN weeks : weeks[w].module = 1

\* sheets for module inheritance: the week cells count up from 1, a row either opens the
\* next week or leaves its week cell empty; a module cell is empty or names the module that
\* has the number of the row's week
RowWeek(opens, i) == Cardinality({k \in 1..i : opens[k]})

WeekCell(opens, i) == IF opens[i] THEN RowWeek(opens, i) ELSE NaN

InheritSheets(maxrows) ==
    UNION {{[i \in 0..n |->
                IF i = 0 THEN SkippedRow
                ELSE ScheduleRow(WeekCell(opens, i),
                                 IF named[i] THEN "Mod " \o PyStr(RowWeek(opens, i)) ELSE "",
                                 "1A", Timestamp(2025, 1, 6), "Lecture", "", "", "", "")] :
              opens \in {o \in [1..n -> BOOLEAN] : n > 0 => o[1]},
              named \in [1..n -> BOOLEAN]}
           : n \in 0..maxrows}

InitInherit ==
    /\ df \in InheritSheets(MaxInheritRows)
    /\ overview_data = Overview(SheetWeeks)
    /\ image_urls = Images(SheetWeeks)
    /\ objective_data = Objectives(SheetWeeks)
    /\ sample_quiz_urls = <<>>
    /\ course_id = ""
    /\ lecture_info = [lecture_days |-> "Monday, Wednesday, & Friday"]
    /\ InitProgram

SpecInherit == InitInherit /\ [][Build]_vars

\* the module cells are non-empty only in weeks 1, 3 and 5
ModuleCellsOnlyInOddWeeks ==
    \A i \in DATA_START_ROW..LastIndex : df[i].module # "" => NearestWeekCell(i) \in {1, 3, 5}

\* the number written in the last non-empty module cell of week w, 0 when it has none
LastModuleCell(w) ==
    LET cells == {i \in DATA_START_ROW..LastIndex : NearestWeekCell(i) = w /\ df[i].module # ""}
    IN IF cells = {} THEN 0
       ELSE PyInt(SubSeq(df[CHOOSE i \in cells : \A k \in cells : k <= i].module, 5, 5))

\* C2: with ascending weeks and module cells only in weeks 1, 3 and 5, week 2 ends with the
\* module of week 1 and week 4 with the module of week 3, the modules of weeks 1 and 3 being
\* the ones of their last module cell.
C2_ModuleInheritance ==
    (pc = "done" /\ ModuleCellsOnlyInOddWeeks) =>
        /\ 2 \in DOMAIN weeks =>
              weeks[2].module = weeks[1].module /\ weeks[1].module = LastModuleCell(1)
        /\ (4 \in DOMAIN weeks /\ LastModuleCell(3) # 0) =>
              weeks[4].module = weeks[3].module /\ weeks[3].module = LastModuleCell(3)
        /\ (4 \in DOMAIN weeks /\ LastModuleCell(3) = 0) =>
              weeks[4].module = weeks[1].module /\ weeks[3].module = weeks[1].module

C2_Witness ==
    /\ pc = "done" /\ ModuleCellsOnlyInOddWeeks
    /\ DOMAIN weeks = {1, 2, 3, 4}
    /\ weeks[1].module = 1 /\ weeks[2].module = 1
    /\ weeks[3].module = 3 /\ weeks[4].module = 3

(***************************************************************************)
(* Properties of the due-date lookups.                                      *)
(***************************************************************************)
HasSubstring(text, sub) ==
    \E i \in 0..Len(text) : i + Len(sub) <= Len(text) /\ SubSeq(text, i + 1, i + Len(sub)) = sub

\* the <<week, day>> pairs whose due text contains the homework number
DueMatches(hw_number) ==
    {m \in (DOMAIN weeks) \X WeekdaySet :
        /\ m[2] \in DOMAIN weeks[m[1]]
        /\ HasSubstring(weeks[m[1]][m[2]].due, hw_number)}

DueLookupAsked == query.op \in {"find_homework_due_date_across_weeks", "find_homework_due_date"}

\* C6: the due-date lookups return "TBD" exactly when no day of any week has a due text
\* containing the homework number, and otherwise the date of a day whose due text contains it.
C6_TBDIffNoSubstringMatch ==
    DueLookupAsked =>
        /\ query.ret = "TBD" <=> DueMatches(query.hw_number) = {}
        /\ query.ret # "TBD" =>
              \E m \in DueMatches(query.hw_number) : query.ret = weeks[m[1]][m[2]].date

\* number "1" is found in a sheet whose only due text is "hw 10"
C6_Witness ==
    /\ DueLookupAsked /\ query.hw_number = "1" /\ query.ret = "01/13/2025"
    /\ \A m \in DueMatches("1") : weeks[m[1]][m[2]].due = "hw 10"

DayIndex(day) == CHOOSE d \in 1..Len(weekday_names) : weekday_names[d] = day

\* the match of the smallest week and, within it, of the earliest weekday
EarliestMatch(hw_number) ==
    CHOOSE m \in DueMatches(hw_number) :
        \A o \in DueMatches(hw_number) :
            m[1] < o[1] \/ (m[1] = o[1] /\ DayIndex(m[2]) <= DayIndex(o[2]))

\* C7: with several matching days the lookup returns the match of the smallest week number
\* and, within that week, of the earliest weekday.
C7_SmallestWeekEarliestDay ==
    (DueLookupAsked /\ DueMatches(query.hw_number) # {}) =>
        LET m == EarliestMatch(query.hw_number)
        IN query.ret = weeks[m[1]][m[2]].date

\* the positions of text where "HW" in either case, blanks and a digit follow one another
HwStarts(text) ==
    {i \in 1..Len(text) :
        /\ i + 2 <= Len(text)
        /\ Char(text, i) \in {"H", "h"} /\ Char(text, i + 1) \in {"W", "w"}
        /\ \E j \in (i + 2)..Len(text) :
              /\ Char(text, j) \in {"0", "1", "2", "3", "4", "5", "6", "7", "8", "9"}
              /\ \A k \in (i + 2)..(j - 1) : Char(text, k) \in {" ", "\t", "\n", "\r"}}

\* the number that follows the leftmost such position
HwNumber(text) ==
    LET i == MinOf(HwStarts(text))
        j == MinOf({k \in (i + 2)..Len(text) : IsDigit(Char(text, k))})
        e == CHOOSE k \in j..Len(text) :
                 /\ \A n \in j..k : IsDigit(Char(text, n))
                 /\ k = Len(text) \/ ~IsDigit(Char(text, k + 1))
    IN SubSeq(text, j, e)

HwDays(w) == {d \in 1..Len(weekday_names) :
                 /\ weekday_names[d] \in DOMAIN weeks[w]
                 /\ HwStarts(weeks[w][weekday_names[d]].due) # {}}

\* C8: find_homework_due_for_checkout(w) returns the number and date of the first day of
\* week w, in weekday order, whose due text has "HW" (either case, blanks allowed) followed by
\* a number, and (None, None) when w is no week of the mapping or week w has no such day.
C8_OnlyTheCheckoutWeek ==
    query.op = "find_homework_due_for_checkout" =>
        IF query.week \notin DOMAIN weeks \/ HwDays(query.week) = {}
        THEN query.ret = <<PyNone, PyNone>>
        ELSE LET day == weeks[query.week][weekday_names[MinOf(HwDays(query.week))]]
             IN query.ret = <<HwNumber(day.due), day.date>>

\* week 1 has no homework due and week 8 has one: the lookup for week 1 finds nothing
C8_Witness ==
    /\ query.op = "find_homework_due_for_checkout"
    /\ query.week = 1 /\ query.ret = <<PyNone, PyNone>>
    /\ 8 \in DOMAIN weeks /\ HwDays(8) # {} /\ HwDays(1) = {}
    /\ DOMAIN weeks[1] \cap WeekdaySet # {}

\* a lookup that returns the number after a lower-case "hw" and a blank
C8_WitnessNumber ==
    /\ query.op = "find_homework_due_for_checkout"
    /\ query.ret = <<"10", "01/08/2025">>

(***************************************************************************)
(* Sheets for the homework range: two days of week 1 and one of week 2,     *)
(* a module cell on every row, homework named in the assigned and due cells.*)
(***************************************************************************)
RangeDays == <<<<1, Timestamp(2025, 1, 8)>>, <<1, Timestamp(2025, 1, 10)>>,
               <<2, Timestamp(2025, 1, 13)>>>>

RangeSheets(maxrows) ==
    UNION {{[i \in 0..n |->
                IF i = 0 THEN SkippedRow
                ELSE ScheduleRow(RangeDays[days[i]][1], modules[i], "1A", RangeDays[days[i]][2],
                                 "Lecture", "", assigned[i], due[i], "")] :
              days \in {d \in [1..n -> 1..Len(RangeDays)] : \A k \in 1..(n - 1) : d[k] < d[k + 1]},
              modules \in [1..n -> {"Mod 1", "Mod 2"}],
              assigned \in [1..n -> {"", "HW3", "hw 2, HW7"}],
              due \in [1..n -> {"", "HW3", "HW 12"}]}
           : n \in 0..maxrows}

InitRange ==
    /\ df \in RangeSheets(MaxRangeRows)
    /\ FixedInputs
    /\ InitProgram

SpecRange == InitRange /\ [][Build \/ GetHomeworkRangeForModule]_vars

(***************************************************************************)
(* Sheets for the next-quiz and next-checkout lookups: a first week of one  *)
(* Friday, a second week that runs from a Wednesday to the Monday after,    *)
(* and a third week's Friday.                                               *)
(***************************************************************************)
ItemDays == <<<<1, Timestamp(2025, 1, 10)>>, <<2, Timestamp(2025, 1, 15)>>,
              <<2, Timestamp(2025, 1, 20)>>, <<3, Timestamp(2025, 1, 24)>>>>

ItemTopics == {"Lecture", "Quiz 1 / Checkout 2", "Quiz 2 / Checkout 1"}

\* the rows of a sheet follow the calendar
ItemSheets(maxrows) ==
    UNION {{[i \in 0..n |->
                IF i = 0 THEN SkippedRow
                ELSE ScheduleRow(ItemDays[days[i]][1], "Mod 1", "1A", ItemDays[days[i]][2],
                                 topics[i], "", "", "", "")] :
              days \in {d \in [1..n -> 1..Len(ItemDays)] : \A k \in 1..(n - 1) : d[k] < d[k + 1]},
              topics \in [1..n -> ItemTopics]}
           : n \in 0..maxrows}

InitItems ==
    /\ df \in ItemSheets(MaxItemRows)
    /\ overview_data = Overview(SheetWeeks)
    /\ image_urls = Images(SheetWeeks)
    /\ objective_data = Objectives({1, 2})
    /\ sample_quiz_urls = <<>>
    /\ course_id = ""
    /\ lecture_info \in {[lecture_days |-> "Monday, Wednesday, & Friday"],
                         [lecture_days |-> "Wednesday and Friday"]}
    /\ InitProgram

SpecItems == InitItems /\ [][Build \/ NextItemQueries]_vars

NextItemAsked == query.op \in {"find_next_quiz", "find_next_checkout"}

Collected ==
    IF query.op = "find_next_quiz" THEN collect_quiz_dates ELSE collect_checkout_assignments

NumberOf(item) ==
    IF query.op = "find_next_quiz" THEN item.quiz_number ELSE item.checkout_number

\* year, month and day of an MM/DD/YYYY text as one number
DateKey(text) ==
    PyInt(SubSeq(text, 7, 10)) * 10000 + PyInt(SubSeq(text, 1, 2)) * 100
        + PyInt(SubSeq(text, 4, 5))

\* the positions of the items dated on or after the day with key reference
Upcoming(items, reference) ==
    {i \in 1..Len(items) : DateKey(items[i].date) >= reference}

C9_WitnessNone ==
    /\ query.op = "find_next_checkout" /\ query.week = 3
    /\ current_date(query.week) = "01/24/2025"
    /\ Len(collect_checkout_assignments) = 2 /\ query.ret = <<>>

\* the dates of the lecture days of week w that have one
LectureDates(w) ==
    {weeks[w][get_lecture_days_list[j]].date :
        j \in {k \in 1..Len(get_lecture_days_list) : get_lecture_days_list[k] \in DOMAIN weeks[w]}}

\* C10: the reference date of the current week is the earliest date among its lecture days
\* that have a date.
C10_ReferenceIsEarliestDate ==
    (NextItemAsked /\ query.week \in DOMAIN weeks /\ LectureDates(query.week) # {}) =>
        LET reference == DateKey(current_date(query.week))
        IN \A date \in LectureDates(query.week) : reference <= DateKey(date)

\* the asked week is no key of the mapping, or none of its days is a dated lecture day
NoReferenceDate == query.week \notin DOMAIN weeks \/ LectureDates(query.week) = {}

C11_WitnessMissingWeek ==
    /\ query.op = "find_next_checkout" /\ query.week \notin DOMAIN weeks
    /\ query.ret # <<>> /\ query.ret[1].checkout_number = 1

(***************************************************************************)
(* C12: the homework range of a module.                                     *)
(***************************************************************************)
\* the assigned and due texts of the days of the weeks whose module is module_number
ModuleTexts(module_number) ==
    UNION {UNION {{weeks[w][day].assigned, weeks[w][day].due} :
                     day \in DOMAIN weeks[w] \cap WeekdaySet}
             : w \in {k \in DOMAIN weeks : weeks[k].module = module_number}}

\* the homework numbers of those texts, each text giving the number after its leftmost "HW"
ModuleHomeworks(module_number) ==
    {PyInt(HwNumber(text)) : text \in {t \in ModuleTexts(module_number) : HwStarts(t) # {}}}

TwoDigits(n) == IF n < 10 THEN "0" \o Char(DigitChars, n + 1) ELSE PyStr(n)

C12_WitnessTwo ==
    /\ query.op = "get_homework_range_for_module"
    /\ Cardinality(ModuleHomeworks(query.module_number)) = 2
    /\ query.ret = "HW03 & HW12"

C12_WitnessOne ==
    /\ query.op = "get_homework_range_for_module"
    /\ ModuleHomeworks(query.module_number) = {3}
    /\ query.ret = "HW03"

C12_WitnessNone ==
    /\ query.op = "get_homework_range_for_module" /\ query.module_number = 2
    /\ 2 \in {weeks[w].module : w \in DOMAIN weeks} /\ ModuleHomeworks(2) = {}
    /\ query.ret = "HW02"

(***************************************************************************)
(* Sheets for the lesson range: every row in week 1, the lesson cell of a   *)
(* row the label of its position or blank: the placeholder on odd rows, an  *)
(* empty cell on even rows.                                                 *)
(***************************************************************************)
LessonLabels == <<"1A", "1B", "1C", "2A", "2B", "2C">>

LessonSheets(maxrows) ==
    UNION {{[i \in 0..n |->
                IF i = 0 THEN SkippedRow
                ELSE ScheduleRow(1, modules[i],
                                 IF labelled[i] THEN LessonLabels[i]
                                 ELSE IF i % 2 = 1 THEN "-" ELSE "",
                                 Timestamp(2025, 1, 6), "Lecture", "", "", "", "")] :
              modules \in [1..n -> {"", "Mod 1", "Module 2"}],
              labelled \in [1..n -> BOOLEAN]}
           : n \in 0..maxrows}

InitLesson ==
    /\ df \in LessonSheets(MaxLessonRows)
    /\ FixedInputs
    /\ InitProgram

SpecLesson == InitLesson /\ [][Build \/ GetLessonRangeForModule]_vars

(***************************************************************************)
(* C13: the lesson range of a module closed by a transition.                *)
(***************************************************************************)
LessonAt(i) == Strip(df[i].lesson)
HasLesson(i) == LessonAt(i) \notin {"", "-"}

\* the rows with a lesson label whose module cell holds a number
NumberedRows ==
    {i \in DATA_START_ROW..LastIndex :
        HasLesson(i) /\ \E k \in 1..Len(df[i].module) : IsDigit(Char(df[i].module, k))}

\* the number of the module cell of row i: its leftmost digits
CellNumber(i) ==
    LET cell == df[i].module
        first == MinOf({k \in 1..Len(cell) : IsDigit(Char(cell, k))})
        last == CHOOSE e \in first..Len(cell) :
                    /\ \A k \in first..e : IsDigit(Char(cell, k))
                    /\ e = Len(cell) \/ ~IsDigit(Char(cell, e + 1))
    IN PyInt(SubSeq(cell, first, last))

\* the numbered row before row t, 0 when there is none
NumberedBefore(t) ==
    IF \E j \in NumberedRows : j < t
    THEN CHOOSE j \in NumberedRows : j < t /\ \A k \in NumberedRows : k < t => k <= j
    ELSE 0

\* the rows at which the module changes to a different number
TransitionRows ==
    {t \in NumberedRows : NumberedBefore(t) # 0 /\ CellNumber(NumberedBefore(t)) # CellNumber(t)}

\* the row that opened the module being closed at transition row t
OpeningRow(t) ==
    CHOOSE o \in NumberedRows :
        /\ o < t
        /\ \A j \in NumberedRows : (o <= j /\ j < t) => CellNumber(j) = CellNumber(o)
        /\ NumberedBefore(o) = 0 \/ CellNumber(NumberedBefore(o)) # CellNumber(o)

\* the nearest row with a lesson label before row t
LastLessonBefore(t) ==
    CHOOSE i \in DATA_START_ROW..(t - 1) :
        HasLesson(i) /\ \A k \in (i + 1)..(t - 1) : ~HasLesson(k)

C13_WitnessPlaceholder ==
    /\ query.op = "get_lesson_range_for_module" /\ query.module_number = 1
    /\ LastIndex = 4 /\ TransitionRows = {4}
    /\ df[2].lesson = "1B" /\ df[3].lesson = "-"
    /\ query.ret = "1A-1B"

C13_WitnessSingle ==
    /\ query.op = "get_lesson_range_for_module" /\ query.module_number = 1
    /\ TransitionRows = {3} /\ df[2].lesson = ""
    /\ query.ret = "1A"

InitExtract ==
    /\ df = [i \in {0} |-> SkippedRow]
    /\ FixedInputs
    /\ InitProgram

SpecExtract == InitExtract /\ [][ExtractHomeworkNumber(AssignmentTexts(MaxTokens))]_vars

(***************************************************************************)
(* C14: the homework number of an assignment text.                          *)
(***************************************************************************)
\* the positions of text at which keyword (either case), blanks and a digit follow
KeywordHits(text, keyword) ==
    {i \in 1..Len(text) :
        /\ i + Len(keyword) - 1 <= Len(text)
        /\ \A k \in 1..Len(keyword) :
              LowerChar(Char(text, i + k - 1)) = LowerChar(Char(keyword, k))
        /\ \E j \in (i + Len(keyword))..Len(text) :
              /\ IsDigit(Char(text, j))
              /\ \A k \in (i + Len(keyword))..(j - 1) : Char(text, k) \in {" ", "\t", "\n", "\r"}}

\* the digits that follow the leftmost hit of keyword
NumberAfterKeyword(text, keyword) ==
    LET i == MinOf(KeywordHits(text, keyword))
        j == MinOf({k \in (i + Len(keyword))..Len(text) : IsDigit(Char(text, k))})
        e == CHOOSE k \in j..Len(text) :
                 /\ \A n \in j..k : IsDigit(Char(text, n))
                 /\ k = Len(text) \/ ~IsDigit(Char(text, k + 1))
    IN SubSeq(text, j, e)

\* C14: extract_homework_number returns the number of the first of "HW", "Homework",
\* "Assignment" (followed by optional whitespace and digits, either case) that matches
\* anywhere in the text, and None for an empty text or a text without a match.
C14_FirstPatternInPriorityOrder ==
    query.op = "extract_homework_number" =>
        query.ret =
            IF KeywordHits(query.text, "HW") # {} THEN NumberAfterKeyword(query.text, "HW")
            ELSE IF KeywordHits(query.text, "Homework") # {}
            THEN NumberAfterKeyword(query.text, "Homework")
            ELSE IF KeywordHits(query.text, "Assignment") # {}
            THEN NumberAfterKeyword(query.text, "Assignment")
            ELSE PyNone

C14_Witness ==
    /\ query.op = "extract_homework_number"
    /\ query.text = "Assignment 3 HW 5" /\ query.ret = "5"

C14_WitnessLater ==
    /\ query.op = "extract_homework_number"
    /\ query.text = "HW 5 Assignment 3" /\ query.ret = "5"

C14_WitnessHomework ==
    /\ query.op = "extract_homework_number"
    /\ query.text = "HW Assignment 3 Homework 2" /\ query.ret = "2"

C14_WitnessNone ==
    /\ query.op = "extract_homework_number"
    /\ query.text \in {"", "HW read"} /\ query.ret = PyNone

(***************************************************************************)
(* C15: two runs on the same inputs.                                        *)
(***************************************************************************)
SpecTwice == InitDue /\ [][Build \/ PopulateWeeksAgain]_vars

\* the second run has ended
SecondRunEnded == query.op = "populate_weeks" /\ pc \in {"done", "error"}

PreworkRows ==
    {ScheduleRow(1, module, "1A", date, "Lecture", "", "", "", prework) :
        module \in {"", "Mod 1", "Module 2"},
        date \in {Text("TBA"), Timestamp(2025, 1, 6), Timestamp(2025, 1, 8)},
        prework \in {"", "  ", " Intro & Setup "}}

InitPrework ==
    /\ df \in Sheets(PreworkRows, MaxRows)
    /\ overview_data = Overview(SheetWeeks)
    /\ image_urls = Images(SheetWeeks)
    /\ objective_data = Objectives({1, 2})
    /\ sample_quiz_urls = <<>>
    /\ course_id \in {"", "123"}
    /\ lecture_info = [lecture_days |-> "Monday, Wednesday, & Friday"]
    /\ InitProgram

SpecPrework == InitPrework /\ [][Build]_vars

(***************************************************************************)
(* C16: the prework title and link of a day.                                *)
(***************************************************************************)
\* text without the blanks at its two ends
Trimmed(text) ==
    LET inked == {k \in 1..Len(text) : Char(text, k) \notin {" ", "\t", "\n", "\r"}}
    IN IF inked = {} THEN ""
       ELSE SubSeq(text, MinOf(inked), CHOOSE k \in inked : \A j \in inked : j <= k)

\* C16: for a row with a valid date, a prework cell that is non-empty after trimming is stored
\* as the title "Prework Module {module} - {title}" with the link to the page whose slug is
\* that of the composed title when there is a course identifier; the link is empty without a
\* course identifier or with a blank prework cell.
C16_PreworkTitleAndLink ==
    [][(/\ pc = "rows" /\ index \in DATA_START_ROW..LastIndex
        /\ df[index].date.type = "Timestamp" /\ pc' = "rows")
        => LET w == NearestWeekCell(index)
               day == weeks'[w][CalendarDayName(df[index].date)]
               title == "Prework Module " \o PyStr(weeks'[w].module) \o " - "
                            \o Trimmed(df[index].prework)
           IN IF Trimmed(df[index].prework) # ""
              THEN /\ day.prework_video_title = title
                   /\ day.prework_video_link =
                        IF course_id # ""
                        THEN "https://umich.instructure.com/courses/" \o course_id
                                 \o "/pages/" \o title_to_url_safe(title)
                        ELSE ""
              ELSE day.prework_video_link = ""]_vars

C16_Witness ==
    /\ pc = "rows" /\ index = 2 /\ course_id = "123"
    /\ df[1].date = Timestamp(2025, 1, 6) /\ df[1].prework = " Intro & Setup "
    /\ weeks[1].monday.prework_video_title = "Prework Module 1 - Intro & Setup"
    /\ weeks[1].monday.prework_video_link =
          "https://umich.instructure.com/courses/123/pages/prework-module-1-intro-and-setup"

C16_WitnessNoCourse ==
    /\ pc = "rows" /\ index = 2 /\ course_id = ""
    /\ df[1].date = Timestamp(2025, 1, 6) /\ df[1].prework = " Intro & Setup "
    /\ weeks[1].monday.prework_video_title = "Prework Module 1 - Intro & Setup"
    /\ weeks[1].monday.prework_video_link = ""

C16_WitnessBlank ==
    /\ pc = "rows" /\ index = 2 /\ course_id = "123"
    /\ df[1].date = Timestamp(2025, 1, 6) /\ df[1].prework = "  "
    /\ weeks[1].monday.prework_video_link = ""

(***************************************************************************)
(* Sheets whose module cells hold digits among other characters.            *)
(***************************************************************************)
ModuleRows ==
    {ScheduleRow(week, module, "1A", date, "Lecture", "", "", "", "") :
        week \in {1, 2},
        module \in {"", "Mod 1", "M1 wk 2", "Mod 03", "Mod"},
        date \in {Text("TBA"), Timestamp(2025, 1, 6)}}

InitModule ==
    /\ df \in Sheets(ModuleRows, MaxRows)
    /\ overview_data = Overview(SheetWeeks)
    /\ image_urls = Images(SheetWeeks)
    /\ objective_data = Objectives({1, 3, 12})
    /\ sample_quiz_urls = <<>>
    /\ course_id = ""
    /\ lecture_info = [lecture_days |-> "Monday, Wednesday, & Friday"]
    /\ InitProgram

SpecModule == InitModule /\ [][Build]_vars

(***************************************************************************)
(* C17: the module number parsed from a module cell.                        *)
(***************************************************************************)
DigitPositions(cell) == {k \in 1..Len(cell) : IsDigit(Char(cell, k))}

RECURSIVE TenTo(_)
TenTo(n) == IF n = 0 THEN 1 ELSE 10 * TenTo(n - 1)

\* the decimal value of the digits at the given positions of cell, read from left to right
RECURSIVE DigitsValue(_, _)
DigitsValue(cell, positions) ==
    IF positions = {} THEN 0
    ELSE LET k == MinOf(positions)
         IN DigitVal(Char(cell, k)) * TenTo(Cardinality(positions) - 1)
                + DigitsValue(cell, positions \ {k})

\* C17: a row with a non-empty module cell sets its week's module to the integer formed by
\* the digit characters of the cell, in order, every other character ignored.
C17_ModuleIsAllDigitsOfCell ==
    [][(/\ pc = "rows" /\ index \in DATA_START_ROW..LastIndex
        /\ df[index].module # "" /\ DigitPositions(df[index].module) # {})
        => /\ pc' = "rows" /\ index' = index + 1
           /\ weeks'[NearestWeekCell(index)].module
                 = DigitsValue(df[index].module, DigitPositions(df[index].module))]_vars

C17_Witness ==
    /\ pc = "rows" /\ index = 2
    /\ df[1].module = "M1 wk 2" /\ weeks[1].module = 12

C17_WitnessLeadingZero ==
    /\ pc = "rows" /\ index = 3
    /\ df[1].week = 1 /\ df[2].week = 2 /\ df[2].module = "Mod 03"
    /\ weeks[2].module = 3

(***************************************************************************)
(* C18: the queries on the returned mapping, any number of them in a row.   *)
(***************************************************************************)
SpecQueries ==
    Init /\ [][Build \/ DueQueries \/ NextItemQueries \/ RangeQueries \/ CollectQueries
                   \/ NextCall]_vars

\* C18: the resolver queries never modify the week mapping: from the moment populate_weeks
\* has returned, every step leaves the weeks, their order and the icon_urls and lecture_info
\* entries as they are, so the mapping after any sequence of queries is the returned one.
C18_QueriesLeaveMapping ==
    [][pc = "done" => (weeks' = weeks /\ week_keys' = week_keys /\ extras' = extras
                          /\ pc' = "done")]_vars

C18_Witness ==
    /\ pc = "done" /\ query.op = "get_week_days_in_order"
    /\ Len(query.ret) = 1
    /\ query.ret[1].display_name = "Wednesday"
    /\ query.ret[1].data = weeks[query.week].wednesday

C18_WitnessMissingWeek ==
    /\ pc = "done" /\ query.op = "find_next_quiz"
    /\ query.week \notin DOMAIN weeks /\ query.ret # <<>>

(***************************************************************************)
(* Sheets with a quiz, a checkout and a homework, uploaded and then listed  *)
(* by the deletion utility.                                                 *)
(***************************************************************************)
UploadRows ==
    {ScheduleRow(week, "Mod 1", "1A", Timestamp(2025, 1, 8), work[1], "", work[2], "", "") :
        week \in {1, 2},
        work \in {<<"", "">>, <<"Quiz 1", "HW 1">>, <<"Checkout 2 review", "">>}}

InitUpload ==
    /\ df \in Sheets(UploadRows, MaxRows)
    /\ overview_data = Overview(SheetWeeks)
    /\ image_urls = Images(SheetWeeks)
    /\ objective_data = Objectives({1, 2})
    /\ sample_quiz_urls = <<>>
    /\ course_id \in {"", "123"}
    /\ lecture_info = [lecture_days |-> "Monday, Wednesday, & Friday"]
    /\ InitProgram

SpecUpload == InitUpload /\ [][Build \/ BuildHtml \/ Upload \/ FilterItemsToDelete]_vars

\* C19: every title the upload flow gives to an item (weekly pages "Week N...", assignments
\* "HW" and a two-digit number, "Quiz" and a number, "Checkout" and a number) is selected by
\* filter_pages_to_delete or filter_assignments_to_delete.
C19_UploadedTitlesAreSelected ==
    query.op = "filter_to_delete" =>
        \/ \E i \in 1..Len(query.pages_to_delete) : query.pages_to_delete[i] = query.title
        \/ \E i \in 1..Len(query.assignments_to_delete) :
              query.assignments_to_delete[i] = query.title

(***************************************************************************)
(* C20: numbers entered in chronological order.                             *)
(***************************************************************************)
\* a later date always comes with a higher number
NumbersIncreaseWithDates(items) ==
    \A i, k \in 1..Len(items) :
        DateKey(items[i].date) < DateKey(items[k].date) => NumberOf(items[i]) < NumberOf(items[k])

\* C20: when the numbers of the collected quizzes (or checkouts) increase with their dates,
\* find_next_quiz / find_next_checkout with reference date R return the item with the
\* earliest date on or after R, and None when no item is dated on or after R.
C20_EarliestUpcomingWhenOrdered ==
    (NextItemAsked /\ current_date(query.week) # "") =>
        LET items == Collected
            upcoming == Upcoming(items, DateKey(current_date(query.week)))
        IN NumbersIncreaseWithDates(items) =>
              /\ query.ret = <<>> <=> upcoming = {}
              /\ upcoming # {} =>
                    \E i \in upcoming :
                        /\ query.ret = <<items[i]>>
                        /\ \A k \in upcoming : DateKey(items[i].date) <= DateKey(items[k].date)

\* checkout 1 on 01/10/2025, checkout 2 on 01/24/2025, reference date 01/15/2025: checkout 2
C20_Witness ==
    /\ query.op = "find_next_checkout" /\ query.week = 2
    /\ current_date(query.week) = "01/15/2025"
    /\ Len(collect_checkout_assignments) = 2
    /\ NumbersIncreaseWithDates(collect_checkout_assignments)
    /\ collect_checkout_assignments[1].date = "01/10/2025"
    /\ collect_checkout_assignments[2].date = "01/24/2025"
    /\ query.ret = <<collect_checkout_assignments[2]>>
    /\ query.ret[1].checkout_number = 2

\* numbers entered against the dates: the lookup returns a later item than the earliest one
C20_WitnessUnordered ==
    /\ query.op = "find_next_quiz" /\ current_date(query.week) # ""
    /\ ~NumbersIncreaseWithDates(collect_quiz_dates)
    /\ query.ret # <<>>
    /\ \E k \in Upcoming(collect_quiz_dates, DateKey(current_date(query.week))) :
          DateKey(collect_quiz_dates[k].date) < DateKey(query.ret[1].date)

(***************************************************************************)
(* C21: a new module number on any row, whatever its lesson cell holds.     *)
(***************************************************************************)
\* the rows whose module cell holds a number, with or without a lesson label
ExplicitRows ==
    {i \in DATA_START_ROW..LastIndex :
        \E k \in 1..Len(df[i].module) : IsDigit(Char(df[i].module, k))}

\* the row with a module number before row t, 0 when there is none
ExplicitBefore(t) ==
    IF \E j \in ExplicitRows : j < t
    THEN CHOOSE j \in ExplicitRows : j < t /\ \A k \in ExplicitRows : k < t => k <= j
    ELSE 0

\* the rows whose module number differs from the module number in force above them
ExplicitTransitionRows ==
    {t \in ExplicitRows :
        ExplicitBefore(t) # 0 /\ CellNumber(ExplicitBefore(t)) # CellNumber(t)}

\* the row that opened the module in force above transition row t
ExplicitOpeningRow(t) ==
    CHOOSE o \in ExplicitRows :
        /\ o < t
        /\ \A j \in ExplicitRows : (o <= j /\ j < t) => CellNumber(j) = CellNumber(o)
        /\ ExplicitBefore(o) = 0 \/ CellNumber(ExplicitBefore(o)) # CellNumber(o)

\* C21: every row whose module cell carries a number different from the open module closes
\* the open module there, also when the lesson cell of that row is empty or "-": the range
\* of a module M opened on a labelled row and not reopened later is "start-end", end the
\* nearest lesson label above the row with the new number.
C21_EveryTransitionClosesTheModule ==
    query.op = "get_lesson_range_for_module" =>
        \A t \in ExplicitTransitionRows :
            LET o == ExplicitOpeningRow(t)
                start == LessonAt(o)
                end == LessonAt(LastLessonBefore(t))
            IN (/\ HasLesson(o)
                /\ CellNumber(o) = query.module_number
                /\ \A j \in ExplicitRows : j >= t => CellNumber(j) # query.module_number)
               => query.ret = IF start = end THEN start ELSE start \o "-" \o end

\* the same statement for the transition rows that carry a lesson label
C21_LabelledTransitionsClose ==
    query.op = "get_lesson_range_for_module" =>
        \A t \in ExplicitTransitionRows :
            LET o == ExplicitOpeningRow(t)
                start == LessonAt(o)
                end == LessonAt(LastLessonBefore(t))
            IN (/\ HasLesson(o) /\ HasLesson(t)
                /\ \A j \in ExplicitRows : (o <= j /\ j <= t) => HasLesson(j)
                /\ CellNumber(o) = query.module_number
                /\ \A j \in ExplicitRows : j >= t => CellNumber(j) # query.module_number)
               => query.ret = IF start = end THEN start ELSE start \o "-" \o end

\* 'Mod 1' at 1A, 'Module 2' on a row without a lesson label, then 1C: module 1 stays open
C21_MissedTransition ==
    /\ query.op = "get_lesson_range_for_module" /\ query.module_number = 1
    /\ LastIndex = 3
    /\ df[1].module = "Mod 1" /\ df[1].lesson = "1A"
    /\ df[2].module = "Module 2" /\ df[2].lesson = ""
    /\ df[3].module = "" /\ df[3].lesson = "1C"
    /\ query.ret = "1A-1C"

(***************************************************************************)
(* C22: the slug of a navigation link and the slug of the uploaded page.    *)
(***************************************************************************)
\* the events of the weekly pages in the stream
PageEvents ==
    {e \in 1..Len(query.events) :
        query.events[e].type \in {"success", "error"} /\ query.events[e].item_type = "page"}

\* C22: for every week title, the slug build_html puts in the previous-week and next-week
\* links to that title is the slug upload_page computes from the title when it creates or
\* updates the page.
C22_NavigationSlugIsUploadSlug ==
    query.op = "upload_to_canvas" =>
        \A e \in PageEvents : \A i \in DOMAIN query.navigation :
            /\ query.navigation[i].prev_week_title = query.events[e].title
                  => query.navigation[i].prev_slug = <<query.events[e].page_url>>
            /\ query.navigation[i].next_week_title = query.events[e].title
                  => query.navigation[i].next_slug = <<query.events[e].page_url>>

\* the page of week 2 links back to "Week 1: Quiz 1 (01/08/2025) - Quiz 1" with hyphens and
\* "-slash-", the page of week 1 is uploaded under a slug with underscores
C22_SlugsDiffer ==
    /\ query.op = "upload_to_canvas"
    /\ \E e \in PageEvents :
          /\ query.events[e].title = "Week 1: Quiz 1 (01/08/2025) - Quiz 1"
          /\ query.events[e].page_url = "week_1_quiz_1_01_08_2025_quiz_1"
          /\ \E i \in DOMAIN query.navigation :
                /\ query.navigation[i].prev_week_title = query.events[e].title
                /\ query.navigation[i].prev_slug
                      = <<"week-1-quiz-1-01-slash-08-slash-2025-quiz-1">>

(***************************************************************************)
(* C23: the order of the events of the upload stream.                       *)
(***************************************************************************)
\* the events of upload attempts
ItemEvents == {e \in 1..Len(query.events) : query.events[e].type \in {"success", "error"}}

\* the place of an item type in the order homework, quiz, checkout, weekly page
PhaseOf(item_type) ==
    CHOOSE n \in 1..4 : <<"homework", "quiz", "checkout", "page">>[n] = item_type

\* C23: in the event stream of upload-to-canvas the "start" event is first and the
\* "complete" event is last, and every homework attempt precedes every quiz attempt, every
\* quiz attempt every checkout attempt, every checkout attempt every weekly page attempt,
\* whether the earlier attempts succeeded or failed.
C23_EventsInPhases ==
    query.op = "upload_to_canvas" =>
        /\ query.events[1].type = "start"
        /\ \A e \in 2..Len(query.events) : query.events[e].type # "start"
        /\ \A e \in 1..Len(query.events) :
              query.events[e].type = "complete" => e = Len(query.events)
        /\ query.complete => query.events[Len(query.events)].type = "complete"
        /\ \A e, f \in ItemEvents :
              e < f => PhaseOf(query.events[e].item_type) <= PhaseOf(query.events[f].item_type)

\* a finished stream: a failed homework, then a quiz, a checkout and two pages
C23_Witness ==
    /\ query.op = "upload_to_canvas" /\ query.complete
    /\ Len(query.events) = 7
    /\ query.events[2] = [type |-> "error", item_type |-> "homework", title |-> "HW01",
                          page_url |-> ""]
    /\ query.events[3].type = "success" /\ query.events[3].item_type = "quiz"
    /\ query.events[4].item_type = "checkout"
    /\ query.events[5].item_type = "page" /\ query.events[6].item_type = "page"
    /\ query.events[7].type = "complete"

(***************************************************************************)
(* Sheets for the week title: one week, lectures on Monday, Wednesday and   *)
(* Friday, a topic or none.                                                 *)
(***************************************************************************)
TitleRows ==
    {ScheduleRow(1, "Mod 1", "1A", date, topic, "", "", "", "") :
        date \in {Timestamp(2025, 1, 6), Timestamp(2025, 1, 8), Timestamp(2025, 1, 10)},
        topic \in {"", "Statics", "Quiz 1"}}

InitTitle ==
    /\ df \in Sheets(TitleRows, MaxRows)
    /\ FixedInputs
    /\ InitProgram

SpecTitle == InitTitle /\ [][Build \/ GetWeekTitleWithTopicAndDate]_vars

\* the positions in weekday order of the days of week w that have a topic
TopicDays(w) ==
    {d \in 1..Len(weekday_names) :
        weekday_names[d] \in DOMAIN weeks[w] /\ weeks[w][weekday_names[d]].topic # ""}

\* the first topic of week w in weekday order
FirstTopic(w) == Strip(weeks[w][weekday_names[MinOf(TopicDays(w))]].topic)

\* C24: when at least one day of the week has a non-empty topic, the title is
\* "Week N: <topic> (<date>)", followed by the quiz or checkout of the week if there is one,
\* with <topic> the first non-empty topic among the days of the week in weekday order.
C24_TitleHasFirstNonEmptyTopic ==
    (/\ query.op = "get_week_title_with_topic_and_date"
     /\ query.display_week_num \in DOMAIN weeks
     /\ TopicDays(query.display_week_num) # {})
    => LET head == "Week " \o PyStr(query.display_week_num) \o ": "
                       \o FirstTopic(query.display_week_num) \o " ("
       IN Len(query.ret) >= Len(head) /\ SubSeq(query.ret, 1, Len(head)) = head

\* the same statement for the weeks whose first day has a topic
C24_TitleHasTopicOfFirstDay ==
    (/\ query.op = "get_week_title_with_topic_and_date"
     /\ query.display_week_num \in DOMAIN weeks
     /\ TopicDays(query.display_week_num) # {}
     /\ \A d \in 1..MinOf(TopicDays(query.display_week_num)) :
           weekday_names[d] \in DOMAIN weeks[query.display_week_num]
              => d \in TopicDays(query.display_week_num))
    => LET head == "Week " \o PyStr(query.display_week_num) \o ": "
                       \o FirstTopic(query.display_week_num) \o " ("
       IN Len(query.ret) >= Len(head) /\ SubSeq(query.ret, 1, Len(head)) = head

\* Monday without a topic, Wednesday with "Statics": the title is "Week 1"
C24_TopicOfLaterDayLost ==
    /\ query.op = "get_week_title_with_topic_and_date" /\ query.display_week_num = 1
    /\ 1 \in DOMAIN weeks
    /\ "monday" \in DOMAIN weeks[1] /\ weeks[1]["monday"].topic = ""
    /\ "wednesday" \in DOMAIN weeks[1] /\ weeks[1]["wednesday"].topic = "Statics"
    /\ query.ret = "Week 1"

(***************************************************************************)
(* C25: the deletion utility on a course, without a schedule.               *)
(***************************************************************************)
InitDelete ==
    /\ df \in Sheets(UploadRows, 0)
    /\ FixedInputs
    /\ InitProgram

SpecDelete == InitDelete /\ [][DeleteAllMatchingItems]_vars

\* the titles the filters select among the items of a list
Selected(items, kind) ==
    {items[i] : i \in {k \in 1..Len(items) :
        IF kind = "page" THEN week_pattern(items[k]) \/ homework_pattern(items[k])
        ELSE checkout_pattern(items[k]) \/ quiz_pattern(items[k])
                 \/ homework_pattern(items[k])}}

\* C25: delete_all_matching_items sends no delete request unless the user answers "yes" to
\* the confirmation prompt; after a "yes" it sends delete requests only for the pages and
\* assignments the filters selected; it returns (0, 0) when the user declines or nothing
\* matches.
C25_DeleteOnlyAfterYes ==
    query.op = "delete_all_matching_items" =>
        /\ query.requests # <<>> => (query.prompted /\ Lower(query.confirm) = "yes")
        /\ \A r \in 1..Len(query.requests) :
              query.requests[r].title \in
                  Selected(IF query.requests[r].kind = "page" THEN query.all_pages
                           ELSE query.all_assignments, query.requests[r].kind)
        /\ (query.prompted /\ Lower(query.confirm) # "yes") => query.ret = <<0, 0>>
        /\ (Selected(query.all_pages, "page") = {}
               /\ Selected(query.all_assignments, "assignment") = {})
              => (query.ret = <<0, 0>> /\ ~query.prompted)

\* the user answers "yes": the week page and the three assignments are deleted, the syllabus
\* and the essay are not asked for
C25_Witness ==
    /\ query.op = "delete_all_matching_items"
    /\ query.all_pages = <<"Week 1: Statics (01/06/2025)", "Syllabus">>
    /\ query.all_assignments = CourseAssignments
    /\ query.confirm = "yes"
    /\ Len(query.requests) = 4
    /\ query.requests[1] = [kind |-> "page", title |-> "Week 1: Statics (01/06/2025)"]
    /\ query.ret = <<1, 3>>

\* the user answers "no" with items selected: nothing is sent
C25_WitnessDeclined ==
    /\ query.op = "delete_all_matching_items"
    /\ query.prompted /\ query.confirm = "no"
    /\ Selected(query.all_assignments, "assignment") # {}
    /\ query.requests = <<>> /\ query.ret = <<0, 0>>

\* nothing matches: no prompt
C25_WitnessNothing ==
    /\ query.op = "delete_all_matching_items"
    /\ query.all_pages = <<"Syllabus">> /\ query.all_assignments = <<"Essay 1">>
    /\ ~query.prompted /\ query.ret = <<0, 0>>

(***************************************************************************)
(* C26: the module of a week after several module cells.                    *)
(***************************************************************************)
\* the week numbers never decrease from one data row to the next
WeeksNonDecreasing ==
    \A i \in DATA_START_ROW..(LastIndex - 1) : NearestWeekCell(i) <= NearestWeekCell(i + 1)

\* the last data row of week w
LastRowOfWeek(w) ==
    CHOOSE i \in DATA_START_ROW..LastIndex :
        NearestWeekCell(i) = w /\ \A k \in (i + 1)..LastIndex : NearestWeekCell(k) # w

\* the number in the last non-empty module cell at or above row i
ModuleCellAtOrAbove(i) ==
    LET j == CHOOSE j \in DATA_START_ROW..i :
                 df[j].module # "" /\ \A k \in (j + 1)..i : df[k].module = ""
    IN DigitsValue(df[j].module, DigitPositions(df[j].module))

\* C26: a non-empty module cell replaces the module of its week, whatever an earlier row of
\* the week has set; so when the week numbers never decrease and the first data row has a
\* module cell, every week ends with the number of the last non-empty module cell at or
\* above the last row of the week.
C26_LastModuleCellWins ==
    /\ (index - 1 \in ProcessedRows /\ df[index - 1].module # "")
          => weeks[NearestWeekCell(index - 1)].module
                 = DigitsValue(df[index - 1].module, DigitPositions(df[index - 1].module))
    /\ (pc = "done" /\ LastIndex >= DATA_START_ROW /\ WeeksNonDecreasing
           /\ df[DATA_START_ROW].module # "")
          => \A w \in DOMAIN weeks : weeks[w].module = ModuleCellAtOrAbove(LastRowOfWeek(w))

\* two rows of week 1, "Mod 1" and then "Mod 03": week 1 ends with module 3
C26_Witness ==
    /\ pc = "done" /\ LastIndex = 2
    /\ df[1].week = 1 /\ df[2].week = 1
    /\ df[1].module = "Mod 1" /\ df[2].module = "Mod 03"
    /\ weeks[1].module = 3

\* week 2 without a module cell ends with the module of week 1
C26_WitnessInherited ==
    /\ pc = "done" /\ LastIndex = 2
    /\ df[1].week = 1 /\ df[2].week = 2
    /\ df[1].module = "M1 wk 2" /\ df[2].module = ""
    /\ weeks[1].module = 12 /\ weeks[2].module = 12

(***************************************************************************)
(* C27: an empty module cell on the first data row.                         *)
(***************************************************************************)
FirstModuleCellEmpty == LastIndex >= DATA_START_ROW /\ df[DATA_START_ROW].module = ""

\* C27: when the first data row has an empty module cell, populate_weeks stops at that row
\* with a lookup error and returns no mapping; the module of the week is not left empty in
\* a returned mapping.
C27_EmptyFirstModuleCellAborts ==
    FirstModuleCellEmpty =>
        /\ pc \notin {"joined", "done"}
        /\ pc = "rows" => index <= DATA_START_ROW
        /\ pc = "error" => (error = "KeyError" /\ index = DATA_START_ROW)
        /\ extras = <<>>

\* the run has stopped on row 1 of a two-row sheet, the module of week 1 still unset
C27_Witness ==
    /\ FirstModuleCellEmpty /\ LastIndex = 2
    /\ df[2].module = "Mod 1"
    /\ pc = "error" /\ error = "KeyError" /\ index = 1
    /\ weeks[df[1].week].module = EmptyModule

(***************************************************************************)
(* C28: the module assignment on a row without a date.                      *)
(***************************************************************************)
\* C28: a row whose date cell is no timestamp, and on which lines 56-59 do not fail, gives
\* its week the number of its module cell, or with an empty cell the module of the week of
\* the row above, and adds no day record.
C28_NonDateRowAssignsModule ==
    [][(/\ pc = "rows" /\ index \in DATA_START_ROW..LastIndex
        /\ df[index].date.type = "str" /\ ~ModuleCellFails(index))
        => /\ pc' = "rows" /\ index' = index + 1
           /\ Days(weeks') = Days(weeks)
           /\ weeks'[NearestWeekCell(index)].module
                 = IF df[index].module # ""
                   THEN DigitsValue(df[index].module, DigitPositions(df[index].module))
                   ELSE weeks[NearestWeekCell(index - 1)].module]_vars

\* the second row, "TBA" in week 2 with "Mod 03": week 2 has module 3 and no day
C28_Witness ==
    /\ pc = "rows" /\ index = 3
    /\ df[1].week = 1 /\ df[1].module = "Mod 1"
    /\ df[2].week = 2 /\ df[2].module = "Mod 03" /\ df[2].date.type = "str"
    /\ weeks[2].module = 3
    /\ DOMAIN weeks[2] \cap WeekdaySet = {}

\* a row without date and without module cell: week 2 inherits module 1 of week 1
C28_WitnessInherited ==
    /\ pc = "done" /\ LastIndex = 2
    /\ df[1].week = 1 /\ df[1].module = "Mod 1"
    /\ df[2].week = 2 /\ df[2].module = "" /\ df[2].date.type = "str"
    /\ weeks[2].module = 1
    /\ DOMAIN weeks[2] \cap WeekdaySet = {}

(***************************************************************************)
(* Sheets with two rows on the same weekday of a week: two Mondays and a    *)
(* Wednesday, a row with every cell filled, a row with other cells, and a   *)
(* row with a lesson only.                                                  *)
(***************************************************************************)
OverwriteRows ==
    {ScheduleRow(1, "Mod 1", cells[1], date, cells[2], cells[3], cells[4], cells[5], cells[6]) :
        date \in {Timestamp(2025, 1, 6), Timestamp(2025, 1, 13), Timestamp(2025, 1, 8)},
        cells \in {<<"1A", "Quiz 1", "Ch 1", "HW 1", "HW 0", "Intro">>,
                   <<"1B", "Checkout 2", "Ch 2", "HW 2", "HW 1", "Setup">>,
                   <<"1C", "", "", "", "", "">>}}

InitOverwrite ==
    /\ df \in Sheets(OverwriteRows, MaxRows)
    /\ overview_data = Overview(SheetWeeks)
    /\ image_urls = Images(SheetWeeks)
    /\ objective_data = Objectives({1, 2})
    /\ sample_quiz_urls = <<>>
    /\ course_id \in {"", "123"}
    /\ lecture_info = [lecture_days |-> "Monday, Wednesday, & Friday"]
    /\ InitProgram

SpecOverwrite == InitOverwrite /\ [][Build]_vars

\* the ten keys of a day record
DayKeys ==
    {"lesson", "date", "topic", "referenced", "assigned", "due", "quiz_info", "checkout_info",
     "prework_video_title", "prework_video_link"}

\* C29: the mapping has one day record per week and weekday, the one of the last row of the
\* week whose date falls on that weekday: date, lesson, topic, referenced, assigned, due,
\* quiz_info, checkout_info and the prework fields are all those of that row, and nothing
\* of an earlier row of the same weekday is left.
C29_LaterRowReplacesDay ==
    pc \in {"rows", "joined", "done"} =>
        \A w \in DOMAIN weeks : \A day \in DOMAIN weeks[w] \cap WeekdaySet :
            /\ Cardinality(LastRowOn(w, day)) = 1
            /\ \A i \in LastRowOn(w, day) :
                  /\ DOMAIN weeks[w][day] = DayKeys
                  /\ IsMMDDYYYY(weeks[w][day].date, df[i].date)
                  /\ weeks[w][day].lesson = df[i].lesson
                  /\ weeks[w][day].topic = df[i].topic
                  /\ weeks[w][day].referenced = df[i].referenced
                  /\ weeks[w][day].assigned = df[i].assigned
                  /\ weeks[w][day].due = df[i].due
                  /\ weeks[w][day].quiz_info
                        = process_quiz_from_topic(df[i].topic, sample_quiz_urls)
                  /\ weeks[w][day].checkout_info = process_checkout_from_topic(df[i].topic)
                  /\ weeks[w][day].prework_video_title
                        = PreworkFields(df[i], weeks[w].module).title
                  /\ weeks[w][day].prework_video_link
                        = PreworkFields(df[i], weeks[w].module).link

\* Monday 01/06 with every cell filled, then Monday 01/13 with a lesson only: the one Monday
\* record is the second row's, with no quiz, no homework and no prework
C29_Witness ==
    /\ pc = "done" /\ LastIndex = 2 /\ course_id = "123"
    /\ df[1].date = Timestamp(2025, 1, 6) /\ df[1].topic = "Quiz 1"
    /\ df[2].date = Timestamp(2025, 1, 13) /\ df[2].lesson = "1C"
    /\ DOMAIN weeks[1] \cap WeekdaySet = {"monday"}
    /\ weeks[1]["monday"].date = "01/13/2025"
    /\ weeks[1]["monday"].lesson = "1C"
    /\ weeks[1]["monday"].topic = "" /\ weeks[1]["monday"].assigned = ""
    /\ ~weeks[1]["monday"].quiz_info.has_quiz
    /\ weeks[1]["monday"].prework_video_title = ""
    /\ weeks[1]["monday"].prework_video_link = ""

(***************************************************************************)
(* C30: the module number of a cell as the walker and as the lesson range   *)
(* scan read it.                                                            *)
(***************************************************************************)
SpecModuleRange == InitModule /\ [][Build \/ GetLessonRangeForModule]_vars

\* C30: the module number the walker stores for the week of a row with a module cell (all
\* digits of the cell) is the module number get_lesson_range_for_module extracts from that
\* cell (its first run of digits).
C30_WalkerAndScanAgreeOnModule ==
    (index - 1 \in ProcessedRows /\ DigitPositions(df[index - 1].module) # {})
        => <<weeks[NearestWeekCell(index - 1)].module>>
               = ExtractedModule(Strip(df[index - 1].module))

\* the same statement for the cells whose digits form one run
C30_AgreeOnOneRunOfDigits ==
    (/\ index - 1 \in ProcessedRows /\ DigitPositions(df[index - 1].module) # {}
     /\ \A k \in MinOf(DigitPositions(df[index - 1].module))..Len(df[index - 1].module) :
           k \in DigitPositions(df[index - 1].module)
              \/ \A j \in k..Len(df[index - 1].module) :
                    j \notin DigitPositions(df[index - 1].module))
        => <<weeks[NearestWeekCell(index - 1)].module>>
               = ExtractedModule(Strip(df[index - 1].module))

\* "M1 wk 2": week 1 has module 12, and the lesson range of the sheet is filed under module 1
C30_ModulesDiffer ==
    /\ query.op = "get_lesson_range_for_module" /\ query.module_number = 1
    /\ LastIndex = 1 /\ df[1].module = "M1 wk 2"
    /\ weeks[1].module = 12
    /\ ExtractedModule(Strip(df[1].module)) = <<1>>
    /\ query.ret = "1A"

====
